---- MODULE Spec2Model ----
(***************************************************************************)
(* AreaPicker: the click / sequence engine of src/src/main.rs and the      *)
(* human-like pointer motion of src/src/human_mouse.rs.                    *)
(*                                                                         *)
(* Spec        the application: the UI thread (AppState handlers) and the  *)
(*             worker threads of ClickJob::spawn, sharing the ClickConfig  *)
(*             mutex, the run flags and the ENIGO mutex.                   *)
(* SpecJob     one ClickJob spawned on any configuration, with the         *)
(*             handlers the UI can run while it holds the job.             *)
(* SpecZero    SpecJob on the configurations with a finite limit of zero.  *)
(* SpecMotion  one worker running do_click / human_move_and_click step by  *)
(*             step, with stop() running concurrently.                     *)
(* SpecPath    one call of human_move_inner, with its sleeps.              *)
(* SpecBounds  the operations of Bounds, each called on its own.           *)
(* SpecCall    human_move_and_click called on its own with any arguments.  *)
(* SpecSeeded  human_move_and_click called twice with a seeded generator.  *)
(* SpecDrag    set_bounds_from_drag called once on any drag.               *)
(* SpecProto   the prototypes temp_main2.rs, temp_main3.rs, spawn_temp.rs  *)
(*             and update.rs: worker loop, engine controls, step list.     *)
(***************************************************************************)
EXTENDS Integers, Sequences, FiniteSets, TLC

\* Option<T>: None, Some(x)
None == <<>>

Some(x) == <<x>>

unwrap(o) == o[1]

\* holders of a mutex: nobody, the UI thread, worker thread w
UiThread == <<"ui">>

Thread(w) == <<"worker", w>>

(***************************************************************************)
(* Bounds of the models.                                                   *)
(***************************************************************************)
\* number of workers the UI may spawn in one run of the model
MaxJobs == 2

(***************************************************************************)
(* human_mouse.rs: Bounds                                                  *)
(***************************************************************************)
MkBounds(a, b, c, d) == [min_x |-> a, max_x |-> b, min_y |-> c, max_y |-> d]

\* a - b leaves the i32 range
sub_overflows(a, b) ==
    \/ a >= 0 /\ b < 0 /\ a > 2147483647 + b
    \/ a < 0 /\ b > 0 /\ a < (-2147483647 - 1) + b

\* a - b in i32 as a build without overflow checks computes it: modulo 2^32
wrapping_sub(a, b) ==
    IF a >= 0 /\ b < 0 /\ a > 2147483647 + b
    THEN (a - 2147483647 - 1) + ((-(b + 1)) - 2147483647)
    ELSE IF a < 0 /\ b > 0 /\ a < (-2147483647 - 1) + b
    THEN (a + 2147483647 + 1) + ((2147483647 - b) + 1)
    ELSE a - b

width(b) == wrapping_sub(b.max_x, b.min_x)

height(b) == wrapping_sub(b.max_y, b.min_y)

is_valid(b) == width(b) > 0 /\ height(b) > 0

\* i32::clamp
ClampI(x, lo, hi) == IF x < lo THEN lo ELSE IF x > hi THEN hi ELSE x

clamp(b, p) == <<ClampI(p[1], b.min_x, b.max_x), ClampI(p[2], b.min_y, b.max_y)>>

contains(b, p) ==
    /\ b.min_x <= p[1] /\ p[1] <= b.max_x
    /\ b.min_y <= p[2] /\ p[2] <= b.max_y

nearest_point(b, p) == clamp(b, p)

\* rng.gen_range(lo..=hi): the draws the model takes are the two ends and
\* the middle
gen_range(lo, hi) == {lo, (lo + hi) \div 2, hi}

\* the target points do_click can sample in b
SamplePoints(b) == gen_range(b.min_x, b.max_x) \X gen_range(b.min_y, b.max_y)

(***************************************************************************)
(* main.rs: the values of the configuration                                *)
(***************************************************************************)
Buttons == {"Left"}


\* The memory of a JobMode: the tag and the fields of both variants (the
\* fields of the variant that is not the tag's hold their Default). torn
\* says that a store of another value into this memory has written some of
\* its fields and not yet the others.
SingleMode(b, btn, lo, hi, fin) ==
    [tag |-> "Single", bounds |-> b, button |-> btn, min_secs |-> lo,
     max_secs |-> hi, finite_clicks |-> fin, steps |-> <<>>, cycles |-> None,
     torn |-> FALSE]

SequenceMode(steps, cyc) ==
    [tag |-> "Sequence", bounds |-> None, button |-> "Left", min_secs |-> 0,
     max_secs |-> 0, finite_clicks |-> None, steps |-> steps, cycles |-> cyc,
     torn |-> FALSE]

\* SequenceStep (its name is a label no code reads)
SequenceStep(b, n, btn, lo, hi) ==
    [bounds |-> b, clicks |-> n, button |-> btn, min_secs |-> lo, max_secs |-> hi]

\* AppState::default
default_bounds == MkBounds(100, 400, 100, 400)

default_config == SingleMode(Some(default_bounds), "Left", 2000, 4500, None)

\* human_mouse.rs:26-43  the fields of HumanMouseSettings the model reads:
\* micro_jitter_px in tenths of a pixel, overshoot_chance in percent,
\* overshoot_px in pixels, the pause limits in ms, the seed
HumanMouseSettings(jitter, chance, over, lo, hi, seed) ==
    [micro_jitter_px |-> jitter, overshoot_chance |-> chance,
     overshoot_px |-> over, min_pause_ms |-> lo, max_pause_ms |-> hi,
     rng_seed |-> seed]

\* main.rs:96-106  the settings of every do_click
do_click_settings == HumanMouseSettings(6, 25, 4, 22, 55, None)

(***************************************************************************)
(* State                                                                   *)
(***************************************************************************)
VARIABLES
    \* AppState (UI thread)
    job,            \* AppState.job: None or the worker of the ClickJob held
    bounds_inputs,  \* AppState.bounds_inputs
    seq_steps,      \* AppState.seq_steps
    uiPc,           \* "idle", or "store": inside a handler, holding the config lock
    uiNew,          \* the value the handler is storing into the configuration
    \* shared
    config,         \* Arc<Mutex<ClickConfig>>: the mode it holds
    cfgLock,        \* holder of the configuration mutex: None, "ui" or a worker
    enigoLock,      \* holder of the ENIGO mutex: None or a worker
    running,        \* running[w]: the AtomicBool of worker w's ClickJob
    spawned,        \* number of threads spawned so far
    \* worker threads
    wk,             \* wk[w]: the locals of worker thread w
    \* pointer motion (SpecMotion)
    last_pos,       \* last_pos of the worker closure: None or Some(point)
    pointer,        \* where the last mouse_move_to put the pointer
    held,           \* the button is down
    mc,             \* the locals of do_click / human_move_and_click
    \* a function called on its own (SpecBounds)
    call            \* the function, its arguments and, once it returned, its outcome

\* what the handlers and the worker loop leave alone
mvars == <<last_pos, pointer, held, mc, call>>

vars == <<job, bounds_inputs, seq_steps, uiPc, uiNew, config, cfgLock,
          enigoLock, running, spawned, wk, mvars>>

Jobs == 1 .. MaxJobs

\* the locals of a thread that was not spawned yet
NoWorker ==
    [pc |-> "unborn", cfg |-> default_config, finite_clicks |-> None,
     cycles |-> None, si |-> 0, ci |-> 0,
     \* the region and the button do_click is called with (None outside it)
     b |-> None, btn |-> None,
     \* the delay sampled for sleep_between (in ms), its ms and left (left
     \* is also the length of the idle-retry sleep about to be made), and,
     \* history, the milliseconds the sleeps of sleep_between add up to
     next |-> 0, ms |-> 0, left |-> 0, slept |-> 0,
     \* history: the clicks issued (counted when the job has a finite limit),
     \* the clicks issued with the run flag already false, and whether a
     \* click was issued since the last store into the configuration
     clicks |-> 0, late |-> 0, clicked_since_store |-> FALSE,
     \* history: the thread slept or clicked since it last read the run flag
     \* at the head of 'outer or of 'cycles
     acted |-> FALSE]

\* the locals of do_click before its first call
NoMotion ==
    [pc |-> "ready", b |-> default_bounds, button |-> "Left",
     to |-> <<0, 0>>, from |-> <<0, 0>>, over |-> <<0, 0>>,
     phase |-> "entry", src |-> <<0, 0>>, dest |-> <<0, 0>>, bounds |-> None,
     steps |-> 0, step_ms |-> 0, pause |-> None, i |-> 0,
     \* the bounds and settings arguments of human_move_and_click, its rng
     \* (None: from_entropy; Some of the seed and the number of draws taken)
     hbounds |-> None, settings |-> do_click_settings, rng |-> None,
     \* the timings the generator can give a path
     timings |-> {},
     \* history of a seeded call: the pointer commands and sleeps so far,
     \* and those of the call before it with the same arguments
     sent |-> None, first |-> None,
     \* history: the milliseconds slept in the path being replayed
     slept |-> 0,
     \* history: where the thread was when the run flag became false, the
     \* mouse_move_to calls and mouse_down calls made with the flag false,
     \* and where the pointer was at the last mouse_down and mouse_up
     cleared |-> None, moves_after |-> 0, down_after |-> FALSE,
     down_at |-> None, up_at |-> None]

\* no function is called on its own
NoCall == [op |-> "none", args |-> <<>>, out |-> None]

Init ==
    /\ job = None
    /\ bounds_inputs = default_bounds
    /\ seq_steps = <<>>
    /\ uiPc = "idle"
    /\ uiNew = default_config
    /\ config = default_config
    /\ cfgLock = None
    /\ enigoLock = None
    /\ running = [w \in Jobs |-> FALSE]
    /\ spawned = 0
    /\ wk = [w \in Jobs |-> NoWorker]
    /\ last_pos = None
    /\ pointer = <<0, 0>>
    /\ held = FALSE
    /\ call = NoCall
    /\ mc = NoMotion

(***************************************************************************)
(* UI thread: the AppState handlers of main.rs.  A handler that stores     *)
(* into the configuration takes the mutex, stores the fields in two        *)
(* steps, then releases it; the other handlers are one step.               *)
(***************************************************************************)
\* what the UI widgets can put into the form fields
inverted_bounds == MkBounds(200, 100, 200, 100)

\* finite_limit / num_clicks of the form: the jobs the UI starts in Spec
\* have no limit (SpecJob runs the jobs with a limit)
FiniteClicksChoices == {None}

CyclesChoices == {Some(1)}

\* the step lists the sequence editor is left with
SeqChoices == {<<>>, <<SequenceStep(default_bounds, 1, "Left", 0, 0)>>}

\* interval fields (min_secs, max_secs) of the Single form
IntervalChoices == {<<0, 0>>}

\* the drags of the picker overlay: (drag_start, drag_end) in logical points
DragChoices ==
    {<<<<100, 100>>, <<400, 400>>>>, <<<<400, 400>>, <<100, 100>>>>,
     <<<<100, 100>>, <<100, 100>>>>}

\* pixels_per_point, as a ratio
PppChoices == {<<1, 1>>}

\* f32::round of n/d: half away from zero
RoundDiv(n, d) ==
    IF n >= 0 THEN (2 * n + d) \div (2 * d) ELSE -((2 * (-n) + d) \div (2 * d))

to_px(p, ppp) == <<RoundDiv(p[1] * ppp[1], ppp[2]), RoundDiv(p[2] * ppp[1], ppp[2])>>

Min(a, b) == IF a <= b THEN a ELSE b

Max(a, b) == IF a >= b THEN a ELSE b

\* bounds that take drag_start for the minimum and drag_end for the maximum
bounds_from_drag_Unordered(a, b, ppp, origin_px) ==
    LET pa == to_px(a, ppp)
        pb == to_px(b, ppp)
    IN  MkBounds(pa[1] + origin_px[1], pb[1] + origin_px[1],
                 pa[2] + origin_px[2], pb[2] + origin_px[2])

bounds_from_drag(a, b, ppp, origin_px) ==
    LET pa == to_px(a, ppp)
        pb == to_px(b, ppp)
    IN  MkBounds(Min(pa[1], pb[1]) + origin_px[1], Max(pa[1], pb[1]) + origin_px[1],
                 Min(pa[2], pb[2]) + origin_px[2], Max(pa[2], pb[2]) + origin_px[2])

\* the first half of a store of mode m over the memory old
StoreFirst(old, m) ==
    [old EXCEPT !.tag = m.tag, !.bounds = m.bounds, !.button = m.button,
                !.torn = TRUE]

\* the first half of a store of bounds b into the Single mode old
StoreBoundsFirst(old, b) ==
    [old EXCEPT !.bounds = IF old.bounds = None THEN Some(b)
                           ELSE Some([b EXCEPT !.min_y = unwrap(old.bounds).min_y,
                                               !.max_y = unwrap(old.bounds).max_y]),
                !.torn = TRUE]

\* the locals of the threads when a store into the configuration ends
AfterStore(ws) == [w \in DOMAIN ws |-> [ws[w] EXCEPT !.clicked_since_store = FALSE]]

\* ClickJob::spawn as the caller sees it: a new thread, its run flag true
Spawn ==
    LET w == spawned + 1
    IN  /\ spawned' = w
        /\ running' = [running EXCEPT ![w] = TRUE]
        /\ wk' = [AfterStore(wk) EXCEPT ![w] = [NoWorker EXCEPT !.pc = "outer"]]
        /\ job' = Some(w)

\* the sequence editor (push_or_update_step_from_editor, move_step_up,
\* move_step_down, Action::Remove): seq_steps is left with another list
EditSteps ==
    /\ uiPc = "idle"
    /\ \E l \in SeqChoices : seq_steps' = l
    /\ UNCHANGED <<mvars, job, bounds_inputs, uiPc, uiNew, config, cfgLock, enigoLock,
                   running, spawned, wk>>

\* a start_single without `if self.job.is_some() { return; }`
start_single_NoGuard ==
    /\ uiPc = "idle"
    /\ spawned < MaxJobs
    /\ cfgLock = None
    /\ \E btn \in Buttons, iv \in IntervalChoices,
          fin \in FiniteClicksChoices :
          uiNew' = SingleMode(Some(bounds_inputs), btn, iv[1], iv[2], fin)
    /\ config' = StoreFirst(config, uiNew')
    /\ cfgLock' = UiThread
    /\ uiPc' = "store_start"
    /\ UNCHANGED <<mvars, job, bounds_inputs, seq_steps, enigoLock, running,
                   spawned, wk>>

\* start_single up to the first half of `self.config.lock().mode = mode`
start_single ==
    /\ uiPc = "idle"
    /\ job = None
    /\ spawned < MaxJobs
    /\ cfgLock = None
    /\ \E btn \in Buttons, iv \in IntervalChoices,
          fin \in FiniteClicksChoices :
          uiNew' = SingleMode(Some(bounds_inputs), btn, iv[1], iv[2], fin)
    /\ config' = StoreFirst(config, uiNew')
    /\ cfgLock' = UiThread
    /\ uiPc' = "store_start"
    /\ UNCHANGED <<mvars, job, bounds_inputs, seq_steps, enigoLock, running,
                   spawned, wk>>

\* start_sequence up to the first half of `self.config.lock().mode = mode`
start_sequence ==
    /\ uiPc = "idle"
    /\ job = None
    /\ seq_steps # <<>>
    /\ spawned < MaxJobs
    /\ cfgLock = None
    /\ \E cyc \in CyclesChoices : uiNew' = SequenceMode(seq_steps, cyc)
    /\ config' = StoreFirst(config, uiNew')
    /\ cfgLock' = UiThread
    /\ uiPc' = "store_start"
    /\ UNCHANGED <<mvars, job, bounds_inputs, seq_steps, enigoLock, running,
                   spawned, wk>>

\* the rest of start_single / start_sequence: the store ends, the guard is
\* dropped, the job is spawned
start_finish ==
    /\ uiPc = "store_start"
    /\ config' = uiNew
    /\ cfgLock' = None
    /\ uiPc' = "idle"
    /\ uiNew' = default_config
    /\ Spawn
    /\ UNCHANGED <<mvars, bounds_inputs, seq_steps, enigoLock>>

\* a stop that drops the handle and does not store false into its flag
stop_KeepFlag ==
    /\ uiPc = "idle"
    /\ job' = None
    /\ UNCHANGED <<mvars, bounds_inputs, seq_steps, uiPc, uiNew, config, cfgLock,
                   enigoLock, running, spawned, wk>>

\* AppState::stop
stop ==
    /\ uiPc = "idle"
    /\ running' = IF job # None THEN [running EXCEPT ![unwrap(job)] = FALSE] ELSE running
    /\ job' = None
    /\ UNCHANGED <<mvars, bounds_inputs, seq_steps, uiPc, uiNew, config, cfgLock,
                   enigoLock, spawned, wk>>

\* a pause that clears the flag and keeps the handle
pause_KeepHandle ==
    /\ uiPc = "idle"
    /\ running' = IF job # None THEN [running EXCEPT ![unwrap(job)] = FALSE] ELSE running
    /\ UNCHANGED <<mvars, job, bounds_inputs, seq_steps, uiPc, uiNew, config, cfgLock,
                   enigoLock, spawned, wk>>

\* AppState::pause
pause ==
    /\ uiPc = "idle"
    /\ running' = IF job # None THEN [running EXCEPT ![unwrap(job)] = FALSE] ELSE running
    /\ job' = None
    /\ UNCHANGED <<mvars, bounds_inputs, seq_steps, uiPc, uiNew, config, cfgLock,
                   enigoLock, spawned, wk>>

\* set_bounds_from_drag with both drag points present, up to the first half
\* of `*bounds = Some(..)` (in Sequence mode the lock is taken and dropped)
\* main.rs:467-482  the body of set_bounds_from_drag for a drag from a to b:
\* bounds_inputs is set, and the region of a Single configuration
DragStore(a, b, ppp, origin_px) ==
    /\ bounds_inputs' = bounds_from_drag(a, b, ppp, origin_px)
    /\ IF config.tag = "Single"
         THEN /\ uiNew' = [config EXCEPT !.bounds = Some(bounds_inputs')]
              /\ config' = StoreBoundsFirst(config, bounds_inputs')
              /\ cfgLock' = UiThread
              /\ uiPc' = "store_drag"
         ELSE UNCHANGED <<uiNew, config, cfgLock, uiPc>>

set_bounds_from_drag ==
    /\ uiPc = "idle"
    /\ cfgLock = None
    /\ \E d \in DragChoices, ppp \in PppChoices : DragStore(d[1], d[2], ppp, <<0, 0>>)
    /\ UNCHANGED <<mvars, job, seq_steps, enigoLock, running, spawned, wk>>

\* the rest of set_bounds_from_drag
drag_finish ==
    /\ uiPc = "store_drag"
    /\ config' = uiNew
    /\ cfgLock' = None
    /\ uiPc' = "idle"
    /\ uiNew' = default_config
    /\ wk' = AfterStore(wk)
    /\ UNCHANGED <<mvars, job, bounds_inputs, seq_steps, enigoLock, running, spawned>>

(***************************************************************************)
(* Worker thread: the closure of ClickJob::spawn, main.rs:92-215.          *)
(* pc is the place of the thread in the closure.                           *)
(***************************************************************************)
\* the thread has left the closure: its locals are gone
Exited == [NoWorker EXCEPT !.pc = "done"]

Set(w, r) == wk' = [wk EXCEPT ![w] = IF r.pc = "done" THEN Exited ELSE r]

\* a head of 'outer that does not read the run flag
Outer_NoFlag(w) ==
    /\ wk[w].pc = "outer"
    /\ Set(w, [wk[w] EXCEPT !.pc = "lock"])
    /\ UNCHANGED <<mvars, job, bounds_inputs, seq_steps, uiPc, uiNew, config, cfgLock,
                   enigoLock, running, spawned>>

\* main.rs:146  'outer: loop { if !running { break } ...
Outer(w) ==
    /\ wk[w].pc = "outer"
    /\ Set(w, [wk[w] EXCEPT !.pc = IF running[w] THEN "lock" ELSE "done",
                            !.acted = FALSE])
    /\ UNCHANGED <<mvars, job, bounds_inputs, seq_steps, uiPc, uiNew, config, cfgLock,
                   enigoLock, running, spawned>>

\* a lock() that does not wait for the holder of the mutex
LockConfig_NoWait(w) ==
    /\ wk[w].pc = "lock"
    /\ cfgLock' = Thread(w)
    /\ Set(w, [wk[w] EXCEPT !.pc = "clone"])
    /\ UNCHANGED <<mvars, job, bounds_inputs, seq_steps, uiPc, uiNew, config,
                   enigoLock, running, spawned>>

\* main.rs:148  config_clone.lock()
LockConfig(w) ==
    /\ wk[w].pc = "lock"
    /\ cfgLock = None
    /\ cfgLock' = Thread(w)
    /\ Set(w, [wk[w] EXCEPT !.pc = "clone"])
    /\ UNCHANGED <<mvars, job, bounds_inputs, seq_steps, uiPc, uiNew, config,
                   enigoLock, running, spawned>>

\* a match whose Single arm tests only that there is a region
Match_NoValidity(r) ==
    IF r.cfg.tag = "Single"
    THEN IF r.cfg.bounds = None
         THEN [r EXCEPT !.pc = "idle", !.left = 150]
         ELSE [r EXCEPT !.pc = "single", !.finite_clicks = r.cfg.finite_clicks]
    ELSE IF r.cfg.steps = <<>>
         THEN [r EXCEPT !.pc = "idle", !.left = 150]
         ELSE [r EXCEPT !.pc = "cycles", !.cycles = r.cfg.cycles]

\* a match whose Sequence arm leaves 'outer on an empty step list
Match_EndOnEmpty(r) ==
    IF r.cfg.tag = "Single"
    THEN IF r.cfg.bounds = None \/ ~is_valid(unwrap(r.cfg.bounds))
         THEN [r EXCEPT !.pc = "idle", !.left = 150]
         ELSE [r EXCEPT !.pc = "single", !.finite_clicks = r.cfg.finite_clicks]
    ELSE IF r.cfg.steps = <<>>
         THEN [r EXCEPT !.pc = "done"]
         ELSE [r EXCEPT !.pc = "cycles", !.cycles = r.cfg.cycles]

\* main.rs:149-158, 177-181: where the match on the cloned mode goes
Match(r) ==
    IF r.cfg.tag = "Single"
    THEN IF r.cfg.bounds = None \/ ~is_valid(unwrap(r.cfg.bounds))
         THEN [r EXCEPT !.pc = "idle", !.left = 150]
         ELSE [r EXCEPT !.pc = "single", !.finite_clicks = r.cfg.finite_clicks]
    ELSE IF r.cfg.steps = <<>>
         THEN [r EXCEPT !.pc = "idle", !.left = 150]
         ELSE [r EXCEPT !.pc = "cycles", !.cycles = r.cfg.cycles]

\* a clone whose guard lives on after the statement
CloneConfig_KeepGuard(w) ==
    /\ wk[w].pc = "clone"
    /\ Set(w, Match([wk[w] EXCEPT !.cfg = config]))
    /\ UNCHANGED <<mvars, job, bounds_inputs, seq_steps, uiPc, uiNew, config, cfgLock,
                   enigoLock, running, spawned>>

\* main.rs:148  .clone(), the guard dropped at the end of the statement
CloneConfig(w) ==
    /\ wk[w].pc = "clone"
    /\ cfgLock' = None
    /\ Set(w, Match([wk[w] EXCEPT !.cfg = config]))
    /\ UNCHANGED <<mvars, job, bounds_inputs, seq_steps, uiPc, uiNew, config,
                   enigoLock, running, spawned>>

\* main.rs:152-153, 156-157, 179-180  sleep(150 ms); continue 'outer
Idle(w) ==
    /\ wk[w].pc = "idle"
    /\ Set(w, [wk[w] EXCEPT !.pc = "outer", !.left = 0, !.acted = TRUE])
    /\ UNCHANGED <<mvars, job, bounds_inputs, seq_steps, uiPc, uiNew, config, cfgLock,
                   enigoLock, running, spawned>>

\* a head of the Single loop without the test of the exhausted counter
SingleCheck_NoLimit(w) ==
    /\ wk[w].pc = "single"
    /\ Set(w, [wk[w] EXCEPT !.pc = IF ~running[w] THEN "done" ELSE "click"])
    /\ UNCHANGED <<mvars, job, bounds_inputs, seq_steps, uiPc, uiNew, config, cfgLock,
                   enigoLock, running, spawned>>

\* main.rs:161-163  head of the Single loop
SingleCheck(w) ==
    /\ wk[w].pc = "single"
    /\ Set(w, [wk[w] EXCEPT !.pc =
            IF ~running[w] THEN "done"
            ELSE IF wk[w].finite_clicks = Some(0) THEN "done"
            ELSE "click"])
    /\ UNCHANGED <<mvars, job, bounds_inputs, seq_steps, uiPc, uiNew, config, cfgLock,
                   enigoLock, running, spawned>>

\* the step of the Sequence the thread is in
CurStep(r) == r.cfg.steps[r.si]

\* the region, button and interval the next do_click / sleep_between uses
CurBounds(r) ==
    IF r.cfg.tag = "Single" THEN unwrap(r.cfg.bounds) ELSE CurStep(r).bounds

CurButton(r) == IF r.cfg.tag = "Single" THEN r.cfg.button ELSE CurStep(r).button

CurMinSecs(r) == IF r.cfg.tag = "Single" THEN r.cfg.min_secs ELSE CurStep(r).min_secs

CurMaxSecs(r) == IF r.cfg.tag = "Single" THEN r.cfg.max_secs ELSE CurStep(r).max_secs

\* a thread whose mode has no finite limit (the model counts its clicks
\* only when there is one)
Unlimited(r) ==
    IF r.cfg.tag = "Single" THEN r.cfg.finite_clicks = None ELSE r.cfg.cycles = None

\* an ENIGO.lock() that does not wait for the holder of the mutex
DoClickLock_NoWait(w) ==
    /\ wk[w].pc = "click"
    /\ enigoLock' = Thread(w)
    /\ Set(w, [wk[w] EXCEPT !.pc = "press", !.b = Some(CurBounds(wk[w])),
                            !.btn = Some(CurButton(wk[w]))])
    /\ UNCHANGED <<mvars, job, bounds_inputs, seq_steps, uiPc, uiNew, config, cfgLock,
                   running, spawned>>

\* main.rs:113-119  do_click: the target is sampled, ENIGO is locked
DoClickLock(w) ==
    /\ wk[w].pc = "click"
    /\ enigoLock = None
    /\ enigoLock' = Thread(w)
    /\ Set(w, [wk[w] EXCEPT !.pc = "press", !.b = Some(CurBounds(wk[w])),
                            !.btn = Some(CurButton(wk[w]))])
    /\ UNCHANGED <<mvars, job, bounds_inputs, seq_steps, uiPc, uiNew, config, cfgLock,
                   running, spawned>>

\* main.rs:134-136  sleep_between: the milliseconds to wait
WaitMs(secs) == Max(secs, 10)

\* main.rs:171-172, 191-193, 198  the delay sampled for the next wait
NextSecs(r) ==
    LET lo == Min(CurMinSecs(r), CurMaxSecs(r))
        hi == Max(CurMinSecs(r), CurMaxSecs(r))
    IN  gen_range(lo, hi)

\* saturating_sub(1) on Option<u32>
Decrement(c) == IF c = None THEN None ELSE Some(Max(unwrap(c) - 1, 0))

\* main.rs:120-130, 167-173, 198-199: human_move_and_click replays its
\* paths and clicks (SpecMotion has its steps), ENIGO is unlocked, the
\* counter of Single is decremented, the next delay is sampled and
\* sleep_between is entered
DoClickPress(w) ==
    /\ wk[w].pc = "press"
    /\ enigoLock' = None
    /\ \E next \in NextSecs(wk[w]) :
          Set(w, [wk[w] EXCEPT
                    !.pc = "sleep_check", !.b = None, !.btn = None,
                    !.clicks = IF Unlimited(wk[w]) THEN @ ELSE @ + 1,
                    !.late = IF running[w] THEN @ ELSE @ + 1,
                    !.clicked_since_store = TRUE, !.acted = TRUE,
                    !.finite_clicks =
                        IF wk[w].cfg.tag = "Single" THEN Decrement(@) ELSE @,
                    !.next = next, !.ms = WaitMs(next), !.left = WaitMs(next),
                    !.slept = 0])
    /\ UNCHANGED <<mvars, job, bounds_inputs, seq_steps, uiPc, uiNew, config, cfgLock,
                   running, spawned>>

\* main.rs:137-138  sleep_between: while left > 0 { if !running { break } ...
\* and where the caller goes on when it returns (main.rs:174, 195)
SleepCheck(w) ==
    /\ wk[w].pc = "sleep_check"
    /\ Set(w, IF wk[w].left > 0 /\ running[w]
              THEN [wk[w] EXCEPT !.pc = "sleep"]
              ELSE IF wk[w].cfg.tag = "Single"
                   THEN [wk[w] EXCEPT !.pc = "single"]
                   ELSE [wk[w] EXCEPT !.pc = "clicks", !.ci = @ + 1])
    /\ UNCHANGED <<mvars, job, bounds_inputs, seq_steps, uiPc, uiNew, config, cfgLock,
                   enigoLock, running, spawned>>

\* a sleep of 50 ms whatever is left
Sleep_FullStep(w) ==
    /\ wk[w].pc = "sleep"
    /\ Set(w, [wk[w] EXCEPT !.pc = "sleep_check", !.left = @ - Min(@, 50),
                            !.slept = @ + 50])
    /\ UNCHANGED <<mvars, job, bounds_inputs, seq_steps, uiPc, uiNew, config, cfgLock,
                   enigoLock, running, spawned>>

\* main.rs:139-141  sleep(min(left, 50)); left -= step
Sleep(w) ==
    /\ wk[w].pc = "sleep"
    /\ Set(w, [wk[w] EXCEPT !.pc = "sleep_check", !.left = @ - Min(@, 50),
                            !.slept = @ + Min(wk[w].left, 50), !.acted = TRUE])
    /\ UNCHANGED <<mvars, job, bounds_inputs, seq_steps, uiPc, uiNew, config, cfgLock,
                   enigoLock, running, spawned>>

\* main.rs:185  head of 'cycles
CyclesCheck(w) ==
    /\ wk[w].pc = "cycles"
    /\ Set(w, IF running[w] THEN [wk[w] EXCEPT !.pc = "step", !.si = 1, !.acted = FALSE]
              ELSE [wk[w] EXCEPT !.pc = "done"])
    /\ UNCHANGED <<mvars, job, bounds_inputs, seq_steps, uiPc, uiNew, config, cfgLock,
                   enigoLock, running, spawned>>

\* an end of a pass that does not test the counter after decrementing it
CycleEnd_NoSecondTest(r) ==
    IF r.cycles = None THEN [r EXCEPT !.pc = "cycles"]
    ELSE IF r.cycles = Some(0) THEN [r EXCEPT !.pc = "done"]
    ELSE [r EXCEPT !.pc = "cycles", !.cycles = Decrement(@)]

\* main.rs:203-210  a pass over the steps has ended
CycleEnd(r) ==
    IF r.cycles = None THEN [r EXCEPT !.pc = "cycles"]
    ELSE IF r.cycles = Some(0) THEN [r EXCEPT !.pc = "done"]
    ELSE IF Decrement(r.cycles) = Some(0) THEN [r EXCEPT !.pc = "done", !.cycles = Some(0)]
    ELSE [r EXCEPT !.pc = "cycles", !.cycles = Decrement(@)]

\* a step loop that leaves 'outer at a step whose region is not valid
StepCheck_BreakOnInvalid(w) ==
    /\ wk[w].pc = "step"
    /\ Set(w, IF wk[w].si > Len(wk[w].cfg.steps) THEN CycleEnd(wk[w])
              ELSE IF ~running[w] THEN [wk[w] EXCEPT !.pc = "done"]
              ELSE IF ~is_valid(CurStep(wk[w]).bounds) THEN [wk[w] EXCEPT !.pc = "done"]
              ELSE [wk[w] EXCEPT !.pc = "clicks", !.ci = 0])
    /\ UNCHANGED <<mvars, job, bounds_inputs, seq_steps, uiPc, uiNew, config, cfgLock,
                   enigoLock, running, spawned>>

\* main.rs:187-189  for step in &steps { if !running { break 'outer }
\*                    if !step.bounds.is_valid() { continue } ...
StepCheck(w) ==
    /\ wk[w].pc = "step"
    /\ Set(w, IF wk[w].si > Len(wk[w].cfg.steps) THEN CycleEnd(wk[w])
              ELSE IF ~running[w] THEN [wk[w] EXCEPT !.pc = "done"]
              ELSE IF ~is_valid(CurStep(wk[w]).bounds) THEN [wk[w] EXCEPT !.si = @ + 1]
              ELSE [wk[w] EXCEPT !.pc = "clicks", !.ci = 0])
    /\ UNCHANGED <<mvars, job, bounds_inputs, seq_steps, uiPc, uiNew, config, cfgLock,
                   enigoLock, running, spawned>>

\* a click loop that leaves a step after its first click
ClicksCheck_OneClick(w) ==
    /\ wk[w].pc = "clicks"
    /\ Set(w, IF wk[w].ci >= Min(CurStep(wk[w]).clicks, 1)
              THEN [wk[w] EXCEPT !.pc = "step", !.si = @ + 1]
              ELSE IF ~running[w] THEN [wk[w] EXCEPT !.pc = "done"]
              ELSE [wk[w] EXCEPT !.pc = "click"])
    /\ UNCHANGED <<mvars, job, bounds_inputs, seq_steps, uiPc, uiNew, config, cfgLock,
                   enigoLock, running, spawned>>

\* a click loop that does not read the run flag
ClicksCheck_NoFlag(w) ==
    /\ wk[w].pc = "clicks"
    /\ Set(w, IF wk[w].ci >= CurStep(wk[w]).clicks
              THEN [wk[w] EXCEPT !.pc = "step", !.si = @ + 1]
              ELSE [wk[w] EXCEPT !.pc = "click"])
    /\ UNCHANGED <<mvars, job, bounds_inputs, seq_steps, uiPc, uiNew, config, cfgLock,
                   enigoLock, running, spawned>>

\* main.rs:195-196  for _ in 0..step.clicks { if !running { break 'outer } ...
ClicksCheck(w) ==
    /\ wk[w].pc = "clicks"
    /\ Set(w, IF wk[w].ci >= CurStep(wk[w]).clicks
              THEN [wk[w] EXCEPT !.pc = "step", !.si = @ + 1]
              ELSE IF ~running[w] THEN [wk[w] EXCEPT !.pc = "done"]
              ELSE [wk[w] EXCEPT !.pc = "click"])
    /\ UNCHANGED <<mvars, job, bounds_inputs, seq_steps, uiPc, uiNew, config, cfgLock,
                   enigoLock, running, spawned>>

Worker(w) ==
    \/ Outer(w) \/ LockConfig(w) \/ CloneConfig(w) \/ Idle(w)
    \/ SingleCheck(w) \/ DoClickLock(w) \/ DoClickPress(w)
    \/ SleepCheck(w) \/ Sleep(w)
    \/ CyclesCheck(w) \/ StepCheck(w) \/ ClicksCheck(w)

Next ==
    \/ EditSteps
    \/ start_single \/ start_sequence \/ start_finish
    \/ stop \/ pause
    \/ set_bounds_from_drag \/ drag_finish
    \/ \E w \in Jobs : Worker(w)

Spec == Init /\ [][Next]_vars

(***************************************************************************)
(* SpecJob: one job, as ClickJob::spawn(config) starts it on any           *)
(* configuration (tests.rs:29-48), with the handlers the UI can run while  *)
(* it holds that job.                                                      *)
(***************************************************************************)
valid_bounds == MkBounds(100, 200, 100, 200)

JobBounds == {None, Some(default_bounds), Some(valid_bounds), Some(inverted_bounds)}

JobIntervals == {<<0, 60>>, <<60, 0>>, <<2000, 2000>>}

JobSteps ==
    {<<SequenceStep(default_bounds, 3, "Left", 0, 0),
       SequenceStep(valid_bounds, 3, "Right", 0, 0)>>,
     <<SequenceStep(inverted_bounds, 2, "Left", 0, 0),
       SequenceStep(valid_bounds, 2, "Left", 60, 0)>>,
     <<SequenceStep(inverted_bounds, 1, "Left", 0, 0)>>,
     <<>>}

JobConfigs ==
    {SingleMode(b, btn, iv[1], iv[2], fin) :
        b \in JobBounds, btn \in {"Left"}, iv \in JobIntervals,
        fin \in {None, Some(1), Some(2)}}
    \cup {SequenceMode(st, cyc) : st \in JobSteps, cyc \in {None, Some(1), Some(2)}}

InitJob ==
    /\ config \in JobConfigs
    /\ job = Some(1)
    /\ spawned = 1
    /\ running = [w \in Jobs |-> w = 1]
    /\ wk = [w \in Jobs |-> IF w = 1 THEN [NoWorker EXCEPT !.pc = "outer"] ELSE NoWorker]
    /\ bounds_inputs = default_bounds
    /\ seq_steps = <<>>
    /\ uiPc = "idle"
    /\ uiNew = default_config
    /\ cfgLock = None
    /\ enigoLock = None
    /\ last_pos = None
    /\ pointer = <<0, 0>>
    /\ held = FALSE
    /\ call = NoCall
    /\ mc = NoMotion

NextJob ==
    \/ stop \/ pause
    \/ set_bounds_from_drag \/ drag_finish
    \/ \E w \in Jobs : Worker(w)

SpecJob == InitJob /\ [][NextJob]_vars

\* SpecJob with the worker threads scheduled again and again and the UI
\* handler that holds the configuration lock running to its end
SpecJobFair ==
    /\ SpecJob
    /\ \A w \in Jobs : SF_vars(Worker(w))
    /\ WF_vars(drag_finish)

(***************************************************************************)
(* SpecZero: one ClickJob spawned on a configuration whose finite limit is *)
(* zero: finite_clicks = Some(0) or cycles = Some(0).                      *)
(***************************************************************************)
ZeroConfigs ==
    {SingleMode(b, "Left", iv[1], iv[2], Some(0)) : b \in JobBounds, iv \in JobIntervals}
    \cup {SequenceMode(st, Some(0)) : st \in JobSteps}

InitZero ==
    /\ config \in ZeroConfigs
    /\ job = Some(1)
    /\ spawned = 1
    /\ running = [w \in Jobs |-> w = 1]
    /\ wk = [w \in Jobs |-> IF w = 1 THEN [NoWorker EXCEPT !.pc = "outer"] ELSE NoWorker]
    /\ bounds_inputs = default_bounds
    /\ seq_steps = <<>>
    /\ uiPc = "idle"
    /\ uiNew = default_config
    /\ cfgLock = None
    /\ enigoLock = None
    /\ last_pos = None
    /\ pointer = <<0, 0>>
    /\ held = FALSE
    /\ call = NoCall
    /\ mc = NoMotion

SpecZero == InitZero /\ [][NextJob]_vars

(***************************************************************************)
(* SpecBounds: the operations of impl Bounds (human_mouse.rs:11-24), each  *)
(* called on its own on any Bounds and point over i32.                     *)
(***************************************************************************)
\* outcomes of a call: a value, a value computed with an i32 overflow that
\* the build does not check, a panic
Ok(v) == <<"ok", v>>

Wrapped(v) == <<"wrapped", v>>

Panic == <<"panic">>

\* `a - b > 0`-style arithmetic on i32: a build with overflow checks panics
\* on an overflow, a build without them goes on with the wrapped value
Checked(overflows, v) == IF overflows THEN {Panic, Wrapped(v)} ELSE {Ok(v)}

\* human_mouse.rs:21-23
width_outcomes(b) == Checked(sub_overflows(b.max_x, b.min_x), width(b))

height_outcomes(b) == Checked(sub_overflows(b.max_y, b.min_y), height(b))

is_valid_outcomes(b) ==
    Checked(sub_overflows(b.max_x, b.min_x)
              \/ (width(b) > 0 /\ sub_overflows(b.max_y, b.min_y)),
            is_valid(b))

\* human_mouse.rs:12-14, 18-20  i32::clamp asserts min <= max
clamp_outcomes(b, p) ==
    IF b.min_x > b.max_x \/ b.min_y > b.max_y THEN {Panic} ELSE {Ok(clamp(b, p))}

nearest_point_outcomes(b, p) == clamp_outcomes(b, p)

\* human_mouse.rs:15-17
contains_outcomes(b, p) == {Ok(contains(b, p))}

BoundsOps == {"width", "height", "is_valid", "clamp", "contains", "nearest_point"}

\* the Bounds and points the operations are called on
zero_area_bounds == MkBounds(100, 100, 100, 100)

widest_bounds == MkBounds(-2147483647 - 1, 2147483647, -1, 2147483647)

TestBounds ==
    {default_bounds, valid_bounds, inverted_bounds, zero_area_bounds,
     widest_bounds, MkBounds(2147483647, -2147483647 - 1, 0, 10),
     MkBounds(0, 10, 10, 0)}

TestPoints ==
    {<<150, 150>>, <<0, 0>>, <<500, 50>>, <<2147483647, -2147483647 - 1>>}

sysvars == <<job, bounds_inputs, seq_steps, uiPc, uiNew, config, cfgLock,
             enigoLock, running, spawned, wk, last_pos, pointer, held, mc>>

InitBounds ==
    /\ job = None
    /\ bounds_inputs = default_bounds
    /\ seq_steps = <<>>
    /\ uiPc = "idle"
    /\ uiNew = default_config
    /\ config = default_config
    /\ cfgLock = None
    /\ enigoLock = None
    /\ running = [w \in Jobs |-> FALSE]
    /\ spawned = 0
    /\ wk = [w \in Jobs |-> NoWorker]
    /\ last_pos = None
    /\ pointer = <<0, 0>>
    /\ held = FALSE
    /\ mc = NoMotion
    /\ \E op \in BoundsOps, b \in TestBounds, p \in TestPoints :
          call = [op |-> op, args |-> <<b, p>>, out |-> None]

\* the call returns or panics
Returns(op, outcomes) ==
    /\ call.op = op
    /\ call.out = None
    /\ \E o \in outcomes : call' = [call EXCEPT !.out = Some(o)]
    /\ UNCHANGED sysvars

call_width == Returns("width", width_outcomes(call.args[1]))

call_height == Returns("height", height_outcomes(call.args[1]))

call_is_valid == Returns("is_valid", is_valid_outcomes(call.args[1]))

call_clamp == Returns("clamp", clamp_outcomes(call.args[1], call.args[2]))

call_contains == Returns("contains", contains_outcomes(call.args[1], call.args[2]))

call_nearest_point ==
    Returns("nearest_point", nearest_point_outcomes(call.args[1], call.args[2]))

NextBounds ==
    \/ call_width \/ call_height \/ call_is_valid
    \/ call_clamp \/ call_contains \/ call_nearest_point

SpecBounds == InitBounds /\ [][NextBounds]_vars

(***************************************************************************)
(* SpecMotion: worker thread 1 inside do_click (main.rs:109-131) and       *)
(* human_move_and_click / human_move_inner (human_mouse.rs:129-232), one   *)
(* pointer command per step, with stop() running concurrently.             *)
(***************************************************************************)
Abs(x) == IF x < 0 THEN -x ELSE x

Sgn(x) == IF x < 0 THEN -1 ELSE IF x > 0 THEN 1 ELSE 0

\* the distance between neighbouring f32 values at magnitude a (24 bits of
\* mantissa)
RECURSIVE f32_ulp(_)
f32_ulp(a) == IF a < 16777216 THEN 1 ELSE 2 * f32_ulp(a \div 2)

\* `n as f32` of an i32: the nearest f32, ties to the even mantissa
as_f32(n) ==
    LET a == Abs(n)
        u == f32_ulp(a)
        q == a \div u
        r == a % u
        up == 2 * r > u \/ (2 * r = u /\ q % 2 = 1)
    IN  Sgn(n) * (IF up THEN (q + 1) * u ELSE q * u)

\* `x.round() as i32` of an f32 that is a whole number: the cast saturates
as_i32(x) == ClampI(x, -2147483647 - 1, 2147483647)

\* human_mouse.rs:89-90, 199, 214: an end p of the curve goes to f32 and,
\* at t = 0 or t = 1, comes back rounded
EndPoint(p) == <<as_i32(as_f32(p[1])), as_i32(as_f32(p[2]))>>

\* human_mouse.rs:199-214: the rounded points the curve and its jitter can
\* give between the ends; the model takes the middle of the segment, a
\* point beside it and a point beside the end
CurvePoints(src, dest) ==
    LET m == <<(src[1] + dest[1]) \div 2, (src[2] + dest[2]) \div 2>>
    IN  {m, <<m[1] + 1, m[2] - 1>>, <<dest[1] + 1, dest[2] - 1>>}

\* human_mouse.rs:195-214: the point of iteration i, before the clamp
PathPoints(i, steps, src, dest) ==
    IF i = 0 THEN {EndPoint(src)}
    ELSE IF i = steps THEN {EndPoint(dest)}
    ELSE CurvePoints(src, dest)

\* human_mouse.rs:179-182: distance / speed in ms, before the clamp
TravelMsChoices == {0}

\* human_mouse.rs:185  rng.gen_range(8..=12)
StepMsChoices == {10, 12}

\* human_mouse.rs:189  rng.gen_range(steps/3..(2*steps/3).max(steps/3+1)):
\* the index of the mid-path pause
PauseIndexes(steps) ==
    gen_range(steps \div 3, Max((2 * steps) \div 3, steps \div 3 + 1) - 1)

\* human_mouse.rs:182-189  what human_move_inner fixes before its loop, for
\* a travel time ms (distance / speed, before the clamp), a tick step_ms
\* and a mid_pause (None, or Some of its index): total_ms, steps and the
\* pause
Timing(ms, step_ms, mid_pause) ==
    [total_ms |-> ClampI(ms, 60, 1600),
     step_ms |-> step_ms,
     steps |-> Max(ClampI(ms, 60, 1600) \div Max(step_ms, 1), 3),
     pause |-> mid_pause]

\* the timings of the paths for travel times msSet, ticks stepSet and the
\* outcomes hitSet of `rng.gen::<f32>() < 0.25` (human_mouse.rs:189)
Timings(msSet, stepSet, hitSet) ==
    UNION {
        LET steps == Timing(ms, step_ms, None).steps
        IN  {Timing(ms, step_ms, mid_pause) :
                mid_pause \in (IF FALSE \in hitSet THEN {None} ELSE {}) \cup
                    (IF TRUE \in hitSet
                     THEN {Some(k) : k \in PauseIndexes(steps)} ELSE {})}
        : ms \in msSet, step_ms \in stepSet}

\* the timings of the paths of SpecMotion: short moves, no mid-path pause
InnerTimings == Timings(TravelMsChoices, StepMsChoices, {FALSE})

\* an overshoot of the full overshoot_px on each axis
maybe_overshoot_Full(to, from, settings) ==
    {to, <<to[1] + Sgn(to[1] - from[1]) * settings.overshoot_px,
           to[2] + Sgn(to[2] - from[2]) * settings.overshoot_px>>}

\* human_mouse.rs:115-126  the points maybe_overshoot can return: `to`, or
\* `to` pushed on by less than overshoot_px along from -> to, each
\* component truncated
maybe_overshoot(to, from, settings) ==
    LET dx == to[1] - from[1]
        dy == to[2] - from[2]
        px == settings.overshoot_px
        far == IF settings.overshoot_chance > 0 /\ px > 0 THEN {0, px - 1} ELSE {0}
    IN  {<<to[1] + Sgn(dx) * kx, to[2] + Sgn(dy) * ky>> :
            <<kx, ky>> \in {k \in far \X far :
                               /\ k[1] * k[1] + k[2] * k[2] < Max(px * px, 1)
                               /\ (dx = 0 => k[1] = 0)
                               /\ (dy = 0 => k[2] = 0)}}

\* human_mouse.rs:116, 122  the outcomes of maybe_overshoot: a point, or,
\* when the chance draw hits, the panic of rng.gen_range(0.0..overshoot_px)
\* on an empty range
overshoot_outcomes(to, from, settings) ==
    {Ok(p) : p \in maybe_overshoot(to, from, settings)}
        \cup (IF settings.overshoot_chance > 0 /\ settings.overshoot_px <= 0
              THEN {Panic} ELSE {})

\* human_mouse.rs:225  rng.gen_range(min_pause_ms..=max_pause_ms)
pause_ms(settings) ==
    IF settings.min_pause_ms > settings.max_pause_ms THEN {}
    ELSE gen_range(settings.min_pause_ms, settings.max_pause_ms)

\* the elements of a finite set in a fixed order
RECURSIVE Enumerate(_)
Enumerate(S) ==
    IF S = {} THEN <<>>
    ELSE LET x == CHOOSE y \in S : TRUE IN <<x>> \o Enumerate(S \ {x})

\* human_mouse.rs:137-140  StdRng::from_entropy() or
\* StdRng::seed_from_u64(seed): the generator with no draw taken yet
new_rng(settings) ==
    IF settings.rng_seed = None THEN None ELSE Some(<<unwrap(settings.rng_seed), 0>>)

\* a draw that never reads the seed
Draw_Entropy(rng, S) == S

\* the values a draw from rng can give out of S: any of them from entropy,
\* the one the seed and the number of draws taken fix from a seeded rng
Draw(rng, S) ==
    IF rng = None \/ S = {} THEN S
    ELSE {Enumerate(S)[((unwrap(rng)[1] + unwrap(rng)[2]) % Cardinality(S)) + 1]}

\* the generator after a draw
Advance(rng) ==
    IF rng = None THEN None ELSE Some(<<unwrap(rng)[1], unwrap(rng)[2] + 1>>)

\* the pointer commands and the sleeps
Move(p) == [cmd |-> "move", pos |-> p, ms |-> 0, button |-> "none"]

SleepMs(ms) == [cmd |-> "sleep", pos |-> <<0, 0>>, ms |-> ms, button |-> "none"]

Down(btn) == [cmd |-> "down", pos |-> <<0, 0>>, ms |-> 0, button |-> btn]

Up(btn) == [cmd |-> "up", pos |-> <<0, 0>>, ms |-> 0, button |-> btn]

\* history: the commands cmds are added to the record of a seeded call
Log(m, cmds) ==
    IF m.sent = None THEN m ELSE [m EXCEPT !.sent = Some(unwrap(@) \o cmds)]

\* the regions do_click is called with
MotionBounds == {MkBounds(0, 2, 0, 2), MkBounds(16777216, 16777218, 0, 2)}

jobvars == <<job, bounds_inputs, seq_steps, uiPc, uiNew, config, cfgLock,
             spawned, wk, call>>

InitMotion ==
    /\ job = Some(1)
    /\ bounds_inputs = default_bounds
    /\ seq_steps = <<>>
    /\ uiPc = "idle"
    /\ uiNew = default_config
    /\ config = default_config
    /\ cfgLock = None
    /\ enigoLock = None
    /\ running = [w \in Jobs |-> w = 1]
    /\ spawned = 1
    /\ wk = [w \in Jobs |-> IF w = 1 THEN [NoWorker EXCEPT !.pc = "click"] ELSE NoWorker]
    /\ last_pos = None
    /\ pointer = <<0, 0>>
    /\ held = FALSE
    /\ call = NoCall
    /\ \E b \in MotionBounds :
          mc = [NoMotion EXCEPT !.b = b, !.timings = InnerTimings]

\* history: the place of the thread when it first runs with the flag false
Seen(m) ==
    IF ~running[1] /\ m.cleared = None THEN [m EXCEPT !.cleared = Some(m.pc)] ELSE m

\* human_move_inner(enigo, src, dest, bounds, ..) is entered
EnterInner(m, phase, src, dest, bounds, tm) ==
    [m EXCEPT !.pc = "path", !.phase = phase, !.src = src, !.dest = dest,
              !.bounds = bounds, !.steps = tm.steps, !.step_ms = tm.step_ms,
              !.pause = tm.pause, !.slept = 0, !.i = 0]

\* main.rs:162, 196  the flag is read before do_click is called
ReadFlag ==
    /\ mc.pc = "ready"
    /\ mc' = [Seen(mc) EXCEPT !.pc = IF running[1] THEN "call" ELSE "exit"]
    /\ UNCHANGED <<jobvars, running, enigoLock, last_pos, pointer, held>>

\* main.rs:113-119  do_click: the target is sampled, ENIGO is locked, from
\* is last_pos or the point 40 px up and left of the region
do_click ==
    /\ mc.pc = "call"
    /\ enigoLock = None
    /\ enigoLock' = Thread(1)
    /\ \E to \in SamplePoints(mc.b) :
          mc' = [Seen(mc) EXCEPT
                    !.pc = "begin", !.to = to,
                    !.from = IF last_pos = None
                             THEN <<mc.b.min_x - 40, mc.b.min_y - 40>>
                             ELSE unwrap(last_pos),
                    !.hbounds = Some(mc.b), !.rng = new_rng(mc.settings),
                    !.down_at = None, !.up_at = None]
    /\ UNCHANGED <<jobvars, running, last_pos, pointer, held>>

\* human_mouse.rs:143-149  from outside the region: first a path, with no
\* bounds, to the nearest point of the region
human_move_and_click ==
    /\ mc.pc = "begin"
    /\ IF mc.hbounds # None /\ ~contains(unwrap(mc.hbounds), mc.from)
         THEN IF Panic \in nearest_point_outcomes(unwrap(mc.hbounds), mc.from)
              THEN mc' = [Seen(mc) EXCEPT !.pc = "panic"]
              ELSE \E tm \in Draw(mc.rng, mc.timings) :
                      mc' = [EnterInner(Seen(mc), "entry", mc.from,
                                        nearest_point(unwrap(mc.hbounds), mc.from),
                                        None, tm)
                             EXCEPT !.rng = Advance(mc.rng)]
         ELSE mc' = [Seen(mc) EXCEPT !.pc = "plan"]
    /\ UNCHANGED <<jobvars, running, enigoLock, last_pos, pointer, held>>

\* human_mouse.rs:152-160  maybe_overshoot, then the path to `over` or to `to`
Overshoot ==
    /\ mc.pc = "plan"
    /\ \E o \in Draw(mc.rng, overshoot_outcomes(mc.to, mc.from, mc.settings)),
          tm \in Draw(Advance(mc.rng), mc.timings) :
          IF o = Panic
          THEN mc' = [Seen(mc) EXCEPT !.pc = "panic", !.rng = Advance(mc.rng)]
          ELSE mc' = [EnterInner(Seen(mc), IF o[2] # mc.to THEN "over" ELSE "main",
                                 mc.from, o[2], mc.hbounds, tm)
                      EXCEPT !.over = o[2], !.rng = Advance(Advance(mc.rng))]
    /\ UNCHANGED <<jobvars, running, enigoLock, last_pos, pointer, held>>

\* where human_move_and_click goes on when human_move_inner returns
AfterInner(m) ==
    IF m.phase = "entry" THEN [m EXCEPT !.pc = "plan", !.from = m.dest]
    ELSE IF m.phase = "over" THEN [m EXCEPT !.pc = "settle"]
    ELSE [m EXCEPT !.pc = "down"]

\* a loop that sends the rounded point as it is
human_move_inner_Unclamped ==
    /\ mc.pc = "path"
    /\ IF mc.settings.micro_jitter_px <= 0
         THEN /\ mc' = [Seen(mc) EXCEPT !.pc = "panic"]
              /\ pointer' = pointer
         ELSE \E p \in Draw(mc.rng, PathPoints(mc.i, mc.steps, mc.src, mc.dest)) :
                 IF mc.bounds # None /\ Panic \in clamp_outcomes(unwrap(mc.bounds), p)
                 THEN /\ mc' = [Seen(mc) EXCEPT !.pc = "panic", !.rng = Advance(mc.rng)]
                      /\ pointer' = pointer
                 ELSE LET q == p
                          pausing == mc.pause = Some(mc.i)
                          rng1 == Advance(mc.rng)
                          m == [Log(Seen(mc), <<Move(q)>>) EXCEPT
                                   !.moves_after = IF running[1] THEN @ ELSE @ + 1,
                                   !.rng = rng1]
                      IN  /\ pointer' = q
                          /\ IF pausing /\ pause_ms(mc.settings) = {}
                               THEN mc' = [m EXCEPT !.pc = "panic"]
                               ELSE \E len \in (IF pausing THEN Draw(rng1, pause_ms(mc.settings))
                                                 ELSE {0}) :
                                       LET n == [Log(m, (IF pausing THEN <<SleepMs(len)>> ELSE <<>>)
                                                          \o <<SleepMs(mc.step_ms)>>)
                                                 EXCEPT !.slept = @ + mc.step_ms + len,
                                                        !.i = @ + 1,
                                                        !.rng = IF pausing THEN Advance(rng1)
                                                                ELSE rng1]
                                       IN  mc' = IF mc.i = mc.steps THEN AfterInner(n) ELSE n
    /\ UNCHANGED <<jobvars, running, enigoLock, last_pos, held>>

\* human_mouse.rs:195-231  one iteration of the loop of human_move_inner:
\* the jitter draw (gen_range panics on the empty range -0.0..0.0), the
\* point, the clamp, mouse_move_to, the mid-path pause (gen_range panics on
\* min_pause_ms > max_pause_ms), the sleep
human_move_inner ==
    /\ mc.pc = "path"
    /\ IF mc.settings.micro_jitter_px <= 0
         THEN /\ mc' = [Seen(mc) EXCEPT !.pc = "panic"]
              /\ pointer' = pointer
         ELSE \E p \in Draw(mc.rng, PathPoints(mc.i, mc.steps, mc.src, mc.dest)) :
                 IF mc.bounds # None /\ Panic \in clamp_outcomes(unwrap(mc.bounds), p)
                 THEN /\ mc' = [Seen(mc) EXCEPT !.pc = "panic", !.rng = Advance(mc.rng)]
                      /\ pointer' = pointer
                 ELSE LET q == IF mc.bounds # None THEN clamp(unwrap(mc.bounds), p) ELSE p
                          pausing == mc.pause = Some(mc.i)
                          rng1 == Advance(mc.rng)
                          m == [Log(Seen(mc), <<Move(q)>>) EXCEPT
                                   !.moves_after = IF running[1] THEN @ ELSE @ + 1,
                                   !.rng = rng1]
                      IN  /\ pointer' = q
                          /\ IF pausing /\ pause_ms(mc.settings) = {}
                               THEN mc' = [m EXCEPT !.pc = "panic"]
                               ELSE \E len \in (IF pausing THEN Draw(rng1, pause_ms(mc.settings))
                                                 ELSE {0}) :
                                       LET n == [Log(m, (IF pausing THEN <<SleepMs(len)>> ELSE <<>>)
                                                          \o <<SleepMs(mc.step_ms)>>)
                                                 EXCEPT !.slept = @ + mc.step_ms + len,
                                                        !.i = @ + 1,
                                                        !.rng = IF pausing THEN Advance(rng1)
                                                                ELSE rng1]
                                       IN  mc' = IF mc.i = mc.steps THEN AfterInner(n) ELSE n
    /\ UNCHANGED <<jobvars, running, enigoLock, last_pos, held>>

\* human_mouse.rs:156-157  the settle sleep, then the path from `over` to `to`
Settle ==
    /\ mc.pc = "settle"
    /\ \E ms \in Draw(mc.rng, gen_range(0, 19)),
          tm \in Draw(Advance(mc.rng), mc.timings) :
          mc' = [EnterInner(Log(Seen(mc), <<SleepMs(20 + ms)>>), "main",
                            mc.over, mc.to, mc.hbounds, tm)
                 EXCEPT !.rng = Advance(Advance(mc.rng))]
    /\ UNCHANGED <<jobvars, running, enigoLock, last_pos, pointer, held>>

\* a press with no hold sleep
mouse_down_NoHold ==
    /\ mc.pc = "down"
    /\ held' = TRUE
    /\ mc' = [Log(Seen(mc), <<Down(mc.button)>>) EXCEPT
                 !.pc = "hold", !.down_at = Some(pointer),
                 !.down_after = ~running[1], !.rng = Advance(mc.rng)]
    /\ UNCHANGED <<jobvars, running, enigoLock, last_pos, pointer>>

\* human_mouse.rs:163-164  enigo.mouse_down(button), the hold sleep
mouse_down ==
    /\ mc.pc = "down"
    /\ held' = TRUE
    /\ \E ms \in Draw(mc.rng, gen_range(0, 49)) :
          mc' = [Log(Seen(mc), <<Down(mc.button), SleepMs(20 + ms)>>) EXCEPT
                    !.pc = "hold", !.down_at = Some(pointer),
                    !.down_after = ~running[1], !.rng = Advance(mc.rng)]
    /\ UNCHANGED <<jobvars, running, enigoLock, last_pos, pointer>>

\* human_mouse.rs:165  enigo.mouse_up(button)
mouse_up ==
    /\ mc.pc = "hold"
    /\ held' = FALSE
    /\ mc' = [Log(Seen(mc), <<Up(mc.button)>>) EXCEPT
                 !.pc = "return", !.up_at = Some(pointer)]
    /\ UNCHANGED <<jobvars, running, enigoLock, last_pos, pointer>>

\* main.rs:129-130  the ENIGO guard is dropped, *from_opt = Some((x, y))
do_click_return ==
    /\ mc.pc = "return"
    /\ enigoLock' = None
    /\ last_pos' = Some(mc.to)
    /\ mc' = [Seen(mc) EXCEPT !.pc = "ready"]
    /\ UNCHANGED <<jobvars, running, pointer, held>>

NextMotion ==
    \/ stop
    \/ ReadFlag \/ do_click \/ human_move_and_click \/ Overshoot
    \/ human_move_inner \/ Settle \/ mouse_down \/ mouse_up
    \/ do_click_return

SpecMotion == InitMotion /\ [][NextMotion]_vars

(***************************************************************************)
(* SpecPath: one call of human_move_inner (human_mouse.rs:168-232) over    *)
(* travel distances from 1 px to 3000 px, every tick and mid-path pause.   *)
(***************************************************************************)
\* the distances |to - from| in px of the calls (human_mouse.rs:179)
PathDistances == {1, 100, 3000}

\* human_mouse.rs:180-181  px_per_sec: avg_speed 1400 (main.rs:97) times
\* 1 +- speed_jitter 0.25 (main.rs:98): the slowest and the fastest
PathSpeeds == {1050, 1749}

\* human_mouse.rs:182  (distance / px_per_sec) * 1000.0, before the clamp
TravelMs(distance, px_per_sec) == (distance * 1000) \div px_per_sec

\* the timings human_move_inner can fix for a move of `distance` px
PathTimings(distance) ==
    Timings({TravelMs(distance, v) : v \in PathSpeeds}, 8 .. 12, BOOLEAN)

\* the region of the calls
path_bounds == MkBounds(0, 3000, 0, 2)

InitPath ==
    /\ job = Some(1)
    /\ bounds_inputs = default_bounds
    /\ seq_steps = <<>>
    /\ uiPc = "idle"
    /\ uiNew = default_config
    /\ config = default_config
    /\ cfgLock = None
    /\ enigoLock = Thread(1)
    /\ running = [w \in Jobs |-> w = 1]
    /\ spawned = 1
    /\ wk = [w \in Jobs |-> IF w = 1 THEN [NoWorker EXCEPT !.pc = "press"] ELSE NoWorker]
    /\ last_pos = None
    /\ pointer = <<0, 0>>
    /\ held = FALSE
    /\ call = NoCall
    /\ \E d \in PathDistances, bounds \in {None, Some(path_bounds)} :
       \E tm \in PathTimings(d) :
          /\ mc = EnterInner([NoMotion EXCEPT !.b = path_bounds,
                                              !.from = <<0, 0>>, !.to = <<d, 0>>],
                             "main", <<0, 0>>, <<d, 0>>, bounds, tm)

NextPath == human_move_inner

SpecPath == InitPath /\ [][NextPath]_vars

(***************************************************************************)
(* SpecCall: human_move_and_click (human_mouse.rs:129-166) called on its   *)
(* own with any from, to, bounds and settings, the degenerate ones too.    *)
(* SpecSeeded: the same call made twice with a seeded generator.           *)
(***************************************************************************)
\* the region, the start and end points of the calls
call_bounds == MkBounds(0, 8, 0, 8)

\* a region whose left edge, 2^24 + 1, is no f32
far_bounds == MkBounds(16777217, 16777219, 0, 8)

CallBounds == {None, Some(call_bounds), Some(far_bounds), Some(MkBounds(8, 0, 8, 0))}

CallFroms == {<<-2, 4>>, <<4, 4>>}

CallTos == {<<4, 4>>, <<6, 2>>}

\* the settings of the calls: those of do_click, and those with no jitter,
\* no overshoot distance, the pause limits swapped
CallSettings ==
    {do_click_settings,
     HumanMouseSettings(0, 25, 4, 22, 55, None),
     HumanMouseSettings(6, 25, 0, 22, 55, None),
     HumanMouseSettings(6, 25, 4, 55, 22, None)}

Seeds == {1, 2, 3}

\* the timings of the paths of the calls: short moves, with and without a
\* mid-path pause
CallTimings == Timings(TravelMsChoices, StepMsChoices, BOOLEAN)

\* human_mouse.rs:129-140  human_move_and_click is entered
Invoke(from, to, bounds, settings, button) ==
    [NoMotion EXCEPT
        !.pc = "begin", !.from = from, !.to = to, !.hbounds = bounds,
        !.button = button,
        !.b = IF bounds = None THEN @ ELSE unwrap(bounds),
        !.settings = settings, !.rng = new_rng(settings),
        !.timings = CallTimings,
        !.sent = IF settings.rng_seed = None THEN None ELSE Some(<<>>)]

\* the caller holds ENIGO; the call of human_move_and_click with args
Calling(args) ==
    /\ job = Some(1)
    /\ bounds_inputs = default_bounds
    /\ seq_steps = <<>>
    /\ uiPc = "idle"
    /\ uiNew = default_config
    /\ config = default_config
    /\ cfgLock = None
    /\ enigoLock = Thread(1)
    /\ running = [w \in Jobs |-> w = 1]
    /\ spawned = 1
    /\ wk = [w \in Jobs |-> IF w = 1 THEN [NoWorker EXCEPT !.pc = "press"] ELSE NoWorker]
    /\ last_pos = None
    /\ pointer = <<0, 0>>
    /\ held = FALSE
    /\ call = [op |-> "human_move_and_click", args |-> args, out |-> None]
    /\ mc = Invoke(args[1], args[2], args[3], args[4], args[5])

InitCall ==
    \E from \in CallFroms, to \in CallTos, bounds \in CallBounds,
       settings \in CallSettings :
        Calling(<<from, to, bounds, settings, "Left">>)

NextCall ==
    \/ human_move_and_click \/ Overshoot \/ human_move_inner \/ Settle
    \/ mouse_down \/ mouse_up

SpecCall == InitCall /\ [][NextCall]_vars

\* the buttons of the seeded calls
CallButtons == {"Left", "Right"}

InitSeeded ==
    \E from \in CallFroms, to \in CallTos, seed \in Seeds, button \in CallButtons :
        Calling(<<from, to, Some(call_bounds),
                  [do_click_settings EXCEPT !.rng_seed = Some(seed)], button>>)

\* a second run of the call, with the same arguments; the first run was
\* watched up to here, to its return or to any step before it
call_again ==
    /\ mc.first = None
    /\ mc' = [Invoke(call.args[1], call.args[2], call.args[3], call.args[4],
                     call.args[5])
              EXCEPT !.first = mc.sent]
    /\ pointer' = <<0, 0>>
    /\ held' = FALSE
    /\ UNCHANGED <<jobvars, running, enigoLock, last_pos>>

NextSeeded ==
    \/ human_move_and_click \/ Overshoot \/ human_move_inner \/ Settle
    \/ mouse_down \/ mouse_up \/ call_again

SpecSeeded == InitSeeded /\ [][NextSeeded]_vars

(***************************************************************************)
(* SpecDrag: set_bounds_from_drag (main.rs:466-485) called once, on any    *)
(* drag_start and drag_end, present or not, in either direction.           *)
(***************************************************************************)
\* drag_start / drag_end: None or a position in logical points
DragPoints == {None, Some(<<100, 100>>), Some(<<400, 400>>), Some(<<101, 37>>)}

\* pixels_per_point as a ratio, and the origin of the monitor in pixels
DragPpps == {<<1, 1>>, <<3, 2>>}

DragOrigins == {<<0, 0>>, <<-1920, 40>>}

\* the configuration the drag finds
DragConfigs ==
    {default_config, SequenceMode(<<SequenceStep(default_bounds, 1, "Left", 0, 0)>>, None)}

InitDrag ==
    /\ job = None
    /\ bounds_inputs = default_bounds
    /\ seq_steps = <<>>
    /\ uiPc = "idle"
    /\ uiNew = default_config
    /\ config \in DragConfigs
    /\ cfgLock = None
    /\ enigoLock = None
    /\ running = [w \in Jobs |-> FALSE]
    /\ spawned = 0
    /\ wk = [w \in Jobs |-> NoWorker]
    /\ last_pos = None
    /\ pointer = <<0, 0>>
    /\ held = FALSE
    /\ mc = NoMotion
    /\ \E a \in DragPoints, b \in DragPoints, ppp \in DragPpps, o \in DragOrigins :
          call = [op |-> "set_bounds_from_drag", args |-> <<a, b, ppp, o>>, out |-> None]

\* main.rs:466-485  set_bounds_from_drag(ppp, origin_px) with drag_start and
\* drag_end as they are: nothing is done unless both are there
call_set_bounds_from_drag ==
    /\ call.op = "set_bounds_from_drag"
    /\ call.out = None
    /\ uiPc = "idle"
    /\ cfgLock = None
    /\ IF call.args[1] # None /\ call.args[2] # None
         THEN DragStore(unwrap(call.args[1]), unwrap(call.args[2]),
                        call.args[3], call.args[4])
         ELSE UNCHANGED <<bounds_inputs, uiNew, config, cfgLock, uiPc>>
    /\ call' = [call EXCEPT !.out = Some(Ok(bounds_inputs'))]
    /\ UNCHANGED <<job, seq_steps, enigoLock, running, spawned, wk,
                   last_pos, pointer, held, mc>>

NextDrag == call_set_bounds_from_drag \/ drag_finish

SpecDrag == InitDrag /\ [][NextDrag]_vars

(***************************************************************************)
(* SpecProto: the prototypes. The worker loops of temp_main2.rs            *)
(* (AppState::start), temp_main3.rs (AppState::start) and spawn_temp.rs    *)
(* (ClickJob::spawn), start / stop / pause of temp_main2.rs and            *)
(* temp_main3.rs, and the step list of temp_main2.rs and update.rs.        *)
(* call.op is the file; call.args and call.out are the last engine         *)
(* control called and whether it found a job (pause) or spawned one        *)
(* (start). One click with its delay stands for the clicks of an           *)
(* iteration; the prototypes run with no finite limit.                     *)
(***************************************************************************)
\* the files and the ClickConfig each is run on (temp_main3.rs has its step
\* list only, update.rs its sequence mode only)
ProtoRuns ==
    ({"temp_main2", "spawn_temp"} \X
        {SingleMode(None, "Left", 0, 60, None),
         SingleMode(Some(inverted_bounds), "Left", 0, 60, None),
         SingleMode(Some(valid_bounds), "Left", 0, 60, None),
         SequenceMode(<<>>, None),
         SequenceMode(<<SequenceStep(valid_bounds, 1, "Left", 0, 60)>>, None)})
    \cup ({"temp_main3", "update"} \X
        {SequenceMode(<<>>, None),
         SequenceMode(<<SequenceStep(valid_bounds, 1, "Left", 0, 60)>>, None)})

\* temp_main2.rs:100-101 / temp_main3.rs:74  job: None; spawn_temp.rs is
\* ClickJob::spawn itself: its thread is spawned
InitProto ==
    /\ \E run \in ProtoRuns :
          /\ call = [op |-> run[1], args |-> <<>>, out |-> None]
          /\ config = run[2]
    /\ job = IF call.op = "spawn_temp" THEN Some(1) ELSE None
    /\ spawned = IF call.op = "spawn_temp" THEN 1 ELSE 0
    /\ running = [w \in Jobs |-> w = 1 /\ call.op = "spawn_temp"]
    /\ wk = [w \in Jobs |-> IF w = 1 /\ call.op = "spawn_temp"
                            THEN [NoWorker EXCEPT !.pc = "p_outer"] ELSE NoWorker]
    /\ bounds_inputs = default_bounds
    /\ seq_steps = <<>>
    /\ uiPc = "idle"
    /\ uiNew = default_config
    /\ cfgLock = None
    /\ enigoLock = None
    /\ last_pos = None
    /\ pointer = <<0, 0>>
    /\ held = FALSE
    /\ mc = NoMotion

\* temp_main2.rs:118-215, temp_main3.rs:97-151  AppState::start: returns
\* at once when job is Some, else spawns the worker with a true run flag
temp_start ==
    /\ uiPc = "idle"
    /\ call.op \in {"temp_main2", "temp_main3"}
    /\ job = None => spawned < MaxJobs
    /\ call' = [call EXCEPT !.args = <<"start">>, !.out = Some(job = None)]
    /\ IF job # None
       THEN UNCHANGED <<job, spawned, running, wk>>
       ELSE /\ spawned' = spawned + 1
            /\ job' = Some(spawned')
            /\ running' = [running EXCEPT ![spawned'] = TRUE]
            /\ wk' = [wk EXCEPT ![spawned'] = [NoWorker EXCEPT !.pc = "p_outer"]]
    /\ UNCHANGED <<bounds_inputs, seq_steps, uiPc, uiNew, config, cfgLock,
                   enigoLock, last_pos, pointer, held, mc>>

\* temp_main2.rs:226-230, temp_main3.rs:162-166  AppState::pause: the flag
\* is cleared, the job stays in self.job
temp_pause ==
    /\ uiPc = "idle"
    /\ call.op \in {"temp_main2", "temp_main3"}
    /\ call' = [call EXCEPT !.args = <<"pause">>, !.out = Some(job # None)]
    /\ running' = IF job # None THEN [running EXCEPT ![unwrap(job)] = FALSE] ELSE running
    /\ UNCHANGED <<job, bounds_inputs, seq_steps, uiPc, uiNew, config, cfgLock,
                   enigoLock, spawned, wk, last_pos, pointer, held, mc>>

\* temp_main2.rs:217-220, temp_main3.rs:153-156  AppState::stop: job.take(),
\* the flag is cleared, then handle.join()
temp_stop ==
    /\ uiPc = "idle"
    /\ call.op \in {"temp_main2", "temp_main3"}
    /\ job # None
    /\ call' = [call EXCEPT !.args = <<"stop", unwrap(job)>>, !.out = None]
    /\ running' = [running EXCEPT ![unwrap(job)] = FALSE]
    /\ job' = None
    /\ uiPc' = "join"
    /\ UNCHANGED <<bounds_inputs, seq_steps, uiNew, config, cfgLock,
                   enigoLock, spawned, wk, last_pos, pointer, held, mc>>

\* temp_main2.rs:221-223, temp_main3.rs:157-159  handle.join() returns when
\* the thread has ended
temp_join ==
    /\ uiPc = "join"
    /\ wk[call.args[2]].pc = "done"
    /\ uiPc' = "idle"
    /\ UNCHANGED <<job, bounds_inputs, seq_steps, uiNew, config, cfgLock,
                   enigoLock, running, spawned, wk, mvars>>

\* temp_main2.rs:137, temp_main3.rs:119, spawn_temp.rs:21  `while
\* running.load()`; temp_main3.rs works on its own clone of the steps and
\* locks nothing
ProtoOuter(w) ==
    /\ wk[w].pc = "p_outer"
    /\ Set(w, [wk[w] EXCEPT !.pc = IF ~running[w] THEN "done"
                                   ELSE IF call.op = "temp_main3" THEN "p_body"
                                   ELSE "p_lock"])
    /\ UNCHANGED <<mvars, job, bounds_inputs, seq_steps, uiPc, uiNew, config, cfgLock,
                   enigoLock, running, spawned>>

\* temp_main2.rs:138  let cfg = config.lock();  spawn_temp.rs:22  let
\* config = config_clone.lock();  the guard is a local of the iteration
ProtoLock(w) ==
    /\ wk[w].pc = "p_lock"
    /\ cfgLock = None
    /\ cfgLock' = Thread(w)
    /\ Set(w, [wk[w] EXCEPT !.pc = "p_body"])
    /\ UNCHANGED <<mvars, job, bounds_inputs, seq_steps, uiPc, uiNew, config,
                   enigoLock, running, spawned>>

\* temp_main2.rs:142-145, 174-178; spawn_temp.rs:34-38, 93-97  the
\* iteration has nothing to click: no step, or a Single region that is
\* not valid
NothingToClick(c) ==
    IF c.tag = "Sequence" THEN c.steps = <<>>
    ELSE c.bounds # None /\ ~is_valid(unwrap(c.bounds))

\* the body of an iteration, up to its sleep.
\* temp_main2.rs:140-204: sleep(100) or click and sleep(delay), all with
\* the guard `cfg` alive; `break 'outer` at a cleared flag (148-150); with
\* bounds None the iteration ends at once.
\* spawn_temp.rs:33-131: drop(config) before each idle sleep(200) (35, 94,
\* 129), click and sleep(delay) with the guard alive (66-89, 100-127).
\* temp_main3.rs:120-137: click and sleep(delay), a cleared flag breaks
\* 'outer, no step ends the iteration at once.
ProtoBody(w) ==
    /\ wk[w].pc = "p_body"
    /\ LET idle == NothingToClick(config)
           none == config.tag = "Single" /\ config.bounds = None
           breaks == call.op # "spawn_temp" /\ config.tag = "Sequence"
                     /\ ~idle /\ ~running[w]
           ends == call.op # "spawn_temp"
                   /\ (none \/ (call.op = "temp_main3" /\ idle))
           drops == breaks \/ ends \/ (call.op = "spawn_temp" /\ (idle \/ none))
       IN  /\ Set(w, [wk[w] EXCEPT !.pc = IF breaks THEN "done"
                                          ELSE IF ends THEN "p_outer"
                                          ELSE "p_sleep"])
           /\ cfgLock' = IF drops /\ cfgLock = Thread(w) THEN None ELSE cfgLock
    /\ UNCHANGED <<mvars, job, bounds_inputs, seq_steps, uiPc, uiNew, config,
                   enigoLock, running, spawned>>

\* the sleep returns and the iteration ends: a guard still alive is dropped
ProtoWake(w) ==
    /\ wk[w].pc = "p_sleep"
    /\ Set(w, [wk[w] EXCEPT !.pc = "p_outer"])
    /\ cfgLock' = IF cfgLock = Thread(w) THEN None ELSE cfgLock
    /\ UNCHANGED <<mvars, job, bounds_inputs, seq_steps, uiPc, uiNew, config,
                   enigoLock, running, spawned>>

\* temp_main2.rs:381-389, update.rs:93-101  the step list is drawn in
\* sequence mode: let config = self.config.lock();
render_steps ==
    /\ uiPc = "idle"
    /\ call.op \in {"temp_main2", "update"}
    /\ config.tag = "Sequence"
    /\ cfgLock = None
    /\ cfgLock' = UiThread
    /\ uiPc' = "list"
    /\ UNCHANGED <<job, bounds_inputs, seq_steps, uiNew, config,
                   enigoLock, running, spawned, wk, mvars>>

\* temp_main2.rs:408-411, update.rs:120-123  the checkbox of a step of the
\* list changed: self.config.lock().sequence[i].enabled = enabled, called
\* inside the loop over the guard `config`
toggle_enabled ==
    /\ uiPc = "list"
    /\ config.steps # <<>>
    /\ uiPc' = "toggle"
    /\ UNCHANGED <<job, bounds_inputs, seq_steps, uiNew, config, cfgLock,
                   enigoLock, running, spawned, wk, mvars>>

\* temp_main2.rs:425-426, update.rs:137-138  the loop ends and the guard
\* `config` is dropped with its block
render_done ==
    /\ uiPc = "list"
    /\ cfgLock' = None
    /\ uiPc' = "idle"
    /\ UNCHANGED <<job, bounds_inputs, seq_steps, uiNew, config,
                   enigoLock, running, spawned, wk, mvars>>

NextProto ==
    \/ temp_start \/ temp_pause \/ temp_stop \/ temp_join
    \/ render_steps \/ toggle_enabled \/ render_done
    \/ \E w \in Jobs : ProtoOuter(w) \/ ProtoLock(w) \/ ProtoBody(w) \/ ProtoWake(w)

SpecProto == InitProto /\ [][NextProto]_vars

(***************************************************************************)
(* Claims                                                                  *)
(***************************************************************************)
Alive(w) == wk[w].pc \notin {"unborn", "done"}

\* thread w leaves its loop in this step with its run flag still true
NaturalExit(w) == Alive(w) /\ wk'[w].pc = "done" /\ running[w]

\* the clicks of one pass over steps: the clicks of the steps with a valid region
RECURSIVE SumClicks(_)
SumClicks(steps) ==
    IF steps = <<>> THEN 0
    ELSE (IF is_valid(Head(steps).bounds) THEN Head(steps).clicks ELSE 0)
         + SumClicks(Tail(steps))

InSequence(w) == Alive(w) /\ wk[w].pc \in {"cycles", "step", "clicks", "click", "press", "sleep_check", "sleep"}
                 /\ wk[w].cfg.tag = "Sequence"

InSingle(w) == Alive(w) /\ wk[w].pc \in {"single", "click", "press", "sleep_check", "sleep"}
               /\ wk[w].cfg.tag = "Single"

InDoClick == mc.pc \in {"begin", "plan", "path", "settle", "down", "hold", "return"}

\* C1 (as claimed): for every valid region the target do_click samples is
\* inside the region, and mouse_down and mouse_up are issued with the
\* pointer at exactly that target.
C1_ClickAtTarget ==
    /\ InDoClick => is_valid(mc.b) /\ contains(mc.b, mc.to)
    /\ mc.down_at # None => unwrap(mc.down_at) = mc.to
    /\ mc.up_at # None => unwrap(mc.up_at) = mc.to

\* C4 (as claimed): when the run flag is cleared while human_move_inner
\* replays a path, at most the point of the iteration under way is still
\* sent to the pointer controller and the button is not pressed.
C4_ReplayAborts ==
    mc.cleared = Some("path") => mc.moves_after <= 1 /\ ~mc.down_after

\* C2: a Sequence job with cycles = Some(n), n >= 1, issues at most, and when
\* it ends without a stop request exactly, n times the clicks of its valid
\* steps, and it ends; a job with cycles = None ends only after a stop request.
C2_SequenceClicks ==
    /\ [](\A w \in Jobs :
            InSequence(w) /\ wk[w].cfg.cycles # None
            => wk[w].clicks <= unwrap(wk[w].cfg.cycles) * SumClicks(wk[w].cfg.steps))
    /\ [][\A w \in Jobs :
            NaturalExit(w) /\ wk[w].cfg.tag = "Sequence"
            => /\ wk[w].cfg.cycles # None
               /\ wk[w].clicks = unwrap(wk[w].cfg.cycles) * SumClicks(wk[w].cfg.steps)]_vars
    /\ \A w \in Jobs :
            [](InSequence(w) /\ wk[w].cfg.cycles # None => <>(wk[w].pc = "done"))

\* two valid steps of 3 clicks, cycles = Some(2): 12 clicks issued, the job
\* about to end on its own
C2_Witness ==
    \E w \in Jobs :
        /\ InSequence(w) /\ running[w]
        /\ wk[w].cfg.cycles = Some(2) /\ SumClicks(wk[w].cfg.steps) = 6
        /\ wk[w].pc = "step" /\ wk[w].si > Len(wk[w].cfg.steps)
        /\ wk[w].cycles = Some(1)
        /\ wk[w].clicks = 12

\* C3: a Single job with a valid region and finite_clicks = Some(n): the
\* remaining-click counter is n minus the clicks issued and never below 0,
\* the job ends, and when it ends without a stop request it has issued
\* exactly n clicks; a job with finite_clicks = None ends only after a stop
\* request.
C3_SingleClicks ==
    /\ [](\A w \in Jobs :
            InSingle(w) /\ wk[w].cfg.finite_clicks # None
            => /\ wk[w].finite_clicks # None
               /\ unwrap(wk[w].finite_clicks) >= 0
               /\ wk[w].clicks + unwrap(wk[w].finite_clicks) = unwrap(wk[w].cfg.finite_clicks))
    /\ [][\A w \in Jobs :
            NaturalExit(w) /\ wk[w].cfg.tag = "Single"
            => /\ wk[w].cfg.finite_clicks # None
               /\ wk[w].clicks = unwrap(wk[w].cfg.finite_clicks)]_vars
    /\ \A w \in Jobs :
            [](InSingle(w) /\ wk[w].cfg.finite_clicks # None => <>(wk[w].pc = "done"))

\* finite_clicks = Some(2): both clicks issued, the counter at 0, the job
\* about to end on its own
C3_Witness ==
    \E w \in Jobs :
        /\ InSingle(w) /\ running[w]
        /\ wk[w].cfg.finite_clicks = Some(2)
        /\ wk[w].pc = "single" /\ wk[w].finite_clicks = Some(0)
        /\ wk[w].clicks = 2

\* C5: in both modes a job issues at most one click after its run flag was
\* cleared (the do_click it had started or was about to start).
C5_OneClickAfterStop == \A w \in Jobs : wk[w].late <= 1

\* a click was issued after stop()
C5_Witness == \E w \in Jobs : wk[w].late = 1 /\ ~running[w]

\* C6 (as claimed): a Single job that has issued a click since an invalid or
\* absent region was stored in the configuration has re-read the
\* configuration and idles: it is not moving or clicking.
C6_IdlesOnInvalidRegion ==
    \A w \in Jobs :
        /\ wk[w].pc = "press" /\ wk[w].cfg.tag = "Single"
        /\ config.tag = "Single" /\ ~config.torn
        /\ (config.bounds = None \/ ~is_valid(unwrap(config.bounds)))
        => ~wk[w].clicked_since_store

\* C7: do_click runs only with a valid region; a worker whose Single
\* snapshot has no valid region is idling or back at the head of the loop
\* and holds no lock of the pointer controller.
C7_ClickOnlyValidRegion ==
    \A w \in Jobs :
        /\ wk[w].pc \in {"click", "press"} => is_valid(CurBounds(wk[w]))
        /\ (Alive(w) /\ wk[w].cfg.tag = "Single"
             /\ (wk[w].cfg.bounds = None \/ ~is_valid(unwrap(wk[w].cfg.bounds))))
           => /\ wk[w].pc \in {"idle", "outer", "lock", "clone"}
              /\ enigoLock # Thread(w)

\* the worker idles on the inverted region min_x = 200, max_x = 100
C7_Witness ==
    \E w \in Jobs :
        /\ wk[w].pc = "idle" /\ wk[w].cfg.tag = "Single"
        /\ wk[w].cfg.bounds = Some(inverted_bounds)

\* C8: a worker holds the configuration mutex only while it clones the
\* configuration: never while it sleeps, idles, moves or clicks.
C8_LockOnlyWhileCloning ==
    \A w \in Jobs : cfgLock = Thread(w) => wk[w].pc = "clone"

\* the UI holds the configuration mutex while a worker sleeps
C8_Witness == \E w \in Jobs : wk[w].pc = "sleep" /\ cfgLock = UiThread

\* C9: the configuration a worker operates on is never a torn value: every
\* field of it comes from the same store.
C9_ConsistentSnapshot == \A w \in Jobs : ~wk[w].cfg.torn

\* a worker waits for the mutex while the store of a start_* is half done
C9_Witness ==
    \E w \in Jobs :
        /\ wk[w].pc = "lock" /\ config.torn /\ uiPc = "store_start"

\* C10 (as claimed): at most one worker thread has not yet left its loop.
C10_AtMostOneWorker == Cardinality({w \in Jobs : Alive(w)}) <= 1

\* C11: while AppState.job is Some no start_single / start_sequence gets past
\* its first line: no step spawns a thread, begins the store of a start,
\* replaces the job handle, sets a run flag or changes the mode in the
\* configuration (set_bounds_from_drag alone may write the Single region);
\* and no start_sequence gets past its guards with an empty step list.
C11_StartWhileJobIsNoOp ==
    /\ [][job # None =>
            /\ spawned' = spawned
            /\ uiPc' # "store_start"
            /\ job' \in {job, None}
            /\ \A w \in Jobs : running'[w] => running[w]
            /\ [config' EXCEPT !.bounds = None, !.torn = FALSE]
                 = [config EXCEPT !.bounds = None, !.torn = FALSE]]_vars
    /\ [][uiPc = "idle" /\ uiPc' = "store_start" /\ uiNew'.tag = "Sequence"
            => seq_steps # <<>>]_vars

\* a job handle is held, its thread runs, and nothing but the handle keeps
\* start_sequence from going on
C11_Witness ==
    /\ job # None /\ running[unwrap(job)] /\ Alive(unwrap(job))
    /\ uiPc = "idle" /\ cfgLock = None /\ spawned < MaxJobs
    /\ seq_steps # <<>>

\* C12: the job ClickJob::spawn returns has its run flag true; the step of
\* stop() (or pause()) that gives up the handle leaves the flag of that job
\* false, wherever its worker is; and the flag of a spawned job, once
\* false, is false after every step, a second stop() included.
C12_StopClearsFlagForGood ==
    /\ [][spawned' # spawned
            => running'[spawned'] /\ job' = Some(spawned')]_vars
    /\ [][job # None /\ job' = None => ~running'[unwrap(job)]]_vars
    /\ [][\A w \in Jobs : w <= spawned /\ ~running[w] => ~running'[w]]_vars

\* stop() came while the worker was inside do_click; the handle is gone and
\* stop() can be called again
C12_Witness ==
    \E w \in Jobs :
        /\ w <= spawned /\ ~running[w] /\ wk[w].pc = "press"
        /\ job = None /\ uiPc = "idle"

\* C13: a worker thread whose run flag is false leaves its loop: from
\* idling, from do_click, from sleep_between, from inside a step or a cycle,
\* in both modes, when the thread keeps being scheduled.
C13_StoppedWorkerTerminates ==
    \A w \in Jobs :
        [](Alive(w) /\ ~running[w] => <>(wk[w].pc = "done"))

\* the flag was cleared while the worker idles on a configuration without a
\* valid region
C13_Witness ==
    \E w \in Jobs : ~running[w] /\ wk[w].pc = "idle"

\* C14: every step of pause() is a step of stop() and the other way round;
\* the worker a later start spawns has fresh locals, takes its click and
\* cycle limits from the configuration as it stands when it clones it, and
\* enters a cycle at the first step.
C14_PauseIsStop ==
    /\ [][pause <=> stop]_vars
    /\ [][spawned' # spawned
            => wk'[spawned'] = [NoWorker EXCEPT !.pc = "outer"]]_vars
    /\ [][\A w \in Jobs :
            wk[w].pc = "clone" /\ wk'[w].pc \in {"single", "cycles"}
            => /\ wk'[w].cfg = config
               /\ wk'[w].finite_clicks = config.finite_clicks
               /\ wk'[w].cycles = config.cycles
               /\ wk'[w].clicks = 0]_vars
    /\ [][\A w \in Jobs :
            wk[w].pc = "cycles" /\ wk'[w].pc = "step" => wk'[w].si = 1]_vars

\* the first job was stopped or paused inside its sequence; the job started
\* after it is at the first step with all its cycles left
C14_Witness ==
    /\ spawned = 2 /\ job = Some(2) /\ ~running[1]
    /\ wk[1].pc = "press" /\ wk[1].cfg.tag = "Sequence"
    /\ wk[2].pc = "step" /\ wk[2].si = 1 /\ wk[2].cycles = Some(1)
    /\ wk[2].clicks = 0

\* main.rs:710-713  the status label of the Single panel
StatusLabel ==
    IF job # None
    THEN (IF running[unwrap(job)] THEN "Running" ELSE "Stopped")
    ELSE "Stopped"

\* C15 (as claimed): once a worker has left its loop its run flag reads
\* false, and the status label does not show Running for its job.
C15_NaturalEndIsStopped ==
    \A w \in Jobs :
        wk[w].pc = "done"
        => ~running[w] /\ ~(job = Some(w) /\ StatusLabel = "Running")

\* human_move_inner has returned and nothing was sent since
PathReplayed ==
    \/ mc.pc = "plan" /\ mc.phase = "entry" /\ mc.i > 0
    \/ mc.pc = "settle"
    \/ mc.pc = "down"

\* C16 (as claimed): a path human_move_inner has replayed holds at least 4
\* pointer positions and its last position is its `to`, clamped into the
\* region when there is one; the last position before mouse_down is the `to`
\* of human_move_and_click, clamped, with or without the entry and overshoot
\* sub-paths.
C16_PathEndsAtTo ==
    /\ PathReplayed
       => /\ mc.i >= 4
          /\ pointer = IF mc.bounds # None
                        THEN clamp(unwrap(mc.bounds), mc.dest) ELSE mc.dest
    /\ mc.pc = "down" => pointer = clamp(mc.b, mc.to)

\* C17 (as claimed): the delays slept while human_move_inner replays one
\* path, the mid-path pause included, sum to at least 60 ms and at most
\* 1600 ms.
C17_DelayWithinLimits ==
    mc.pc = "down" => 60 <= mc.slept /\ mc.slept <= 1600

\* C20 (as claimed): width, height, is_valid, clamp, contains and
\* nearest_point return a value, with no panic and no integer overflow, on
\* every Bounds and every point.
C20_BoundsOpsTotal ==
    call.op \in BoundsOps /\ call.out # None => unwrap(call.out)[1] = "ok"

\* C19 (as claimed): human_move_and_click returns normally, with no
\* panic, for every from and to, every bounds argument and every settings
\* value, micro_jitter_px = 0, overshoot_px = 0 and
\* min_pause_ms > max_pause_ms included.
C19_NeverPanics ==
    call.op = "human_move_and_click" => mc.pc # "panic"

C21_ValidIffPositiveArea ==
    call.out # None =>
        LET b == call.args[1]
            out == unwrap(call.out)
        IN  /\ call.op = "is_valid" =>
                out = Ok(b.max_x > b.min_x /\ b.max_y > b.min_y)
            /\ call.op = "width" => out[1] = "ok" /\ out[2] = b.max_x - b.min_x
            /\ call.op = "height" => out[1] = "ok" /\ out[2] = b.max_y - b.min_y

\* sleep_between returns to its caller
SleepReturns(w) == wk[w].pc = "sleep_check" /\ wk'[w].pc \notin {"sleep_check", "sleep"}

\* C22: the delay sampled after a click lies between the smaller and the
\* larger of min_secs and max_secs of the mode or step being executed, and
\* a sleep_between that is not cancelled (it returns with nothing left) has
\* slept, in all, exactly that delay in ms, or 10 ms when the delay is
\* shorter; with min_secs = max_secs = 2.0 that is 2000 ms.
C22_SleepsTheSampledDelay ==
    [][\A w \in Jobs :
          SleepReturns(w) /\ wk[w].left = 0 =>
              /\ Min(CurMinSecs(wk[w]), CurMaxSecs(wk[w])) <= wk[w].next
              /\ wk[w].next <= Max(CurMinSecs(wk[w]), CurMaxSecs(wk[w]))
              /\ wk[w].slept = Max(wk[w].next, 10)
              /\ (CurMinSecs(wk[w]) = 2000 /\ CurMaxSecs(wk[w]) = 2000
                    => wk[w].slept = 2000)]_vars

\* a sleep_between of a 2.0 s .. 2.0 s interval has slept 2000 ms with
\* the run flag still true and is about to return
C22_Witness ==
    \E w \in Jobs :
        /\ wk[w].pc = "sleep_check"
        /\ wk[w].left = 0
        /\ running[w]
        /\ wk[w].slept = 2000
        /\ CurMinSecs(wk[w]) = 2000

\* the milliseconds thread w sleeps in a step of its loop
SleepsFor(w) ==
    IF wk[w].pc \in {"sleep", "idle"} /\ wk'[w].pc # wk[w].pc
    THEN wk[w].left - wk'[w].left
    ELSE 0

\* C23 (as claimed): every wait of the worker is performed as sleeps of at
\* most 50 ms each, the run flag read before each, so that a stop is seen
\* after one such sleep at most: no step of the worker loop sleeps longer
\* than 50 ms.
C23_SleepsAtMost50ms ==
    [][\A w \in Jobs : SleepsFor(w) <= 50]_vars

\* thread w is at a step of its Sequence whose region is not valid
AtInvalidStep(w) ==
    /\ wk[w].pc = "step"
    /\ wk[w].si <= Len(wk[w].cfg.steps)
    /\ ~is_valid(CurStep(wk[w]).bounds)

\* thread w has ended a pass over the steps of its Sequence
AtPassEnd(w) == wk[w].pc = "step" /\ wk[w].si > Len(wk[w].cfg.steps)

\* C24: in Sequence mode a step whose region is not valid issues no move and
\* no click and does not end the pass: the thread goes on to the next step,
\* a pass that ends has issued all the clicks of its steps with a valid
\* region, and it counts as one cycle.
C24_InvalidStepIsSkipped ==
    /\ [][\A w \in Jobs :
            AtInvalidStep(w) /\ running[w] /\ wk'[w] # wk[w]
            => /\ wk'[w] = [wk[w] EXCEPT !.si = @ + 1]
               /\ enigoLock' = enigoLock
               /\ mvars' = mvars]_vars
    /\ [](\A w \in Jobs :
            AtPassEnd(w) /\ wk[w].cfg.cycles # None
            => wk[w].clicks = (unwrap(wk[w].cfg.cycles) - unwrap(wk[w].cycles) + 1)
                                * SumClicks(wk[w].cfg.steps))
    /\ [][\A w \in Jobs :
            AtPassEnd(w) /\ wk[w].cycles # None /\ wk'[w] # wk[w]
            => IF unwrap(wk[w].cycles) <= 1 THEN wk'[w].pc = "done"
               ELSE wk'[w] = [wk[w] EXCEPT !.pc = "cycles",
                                           !.cycles = Some(unwrap(@) - 1)]]_vars

\* a pass over a step with an inverted region and then a step with a valid
\* region of 2 clicks has ended with those 2 clicks issued
C24_Witness ==
    \E w \in Jobs :
        /\ AtPassEnd(w)
        /\ Len(wk[w].cfg.steps) = 2
        /\ ~is_valid(wk[w].cfg.steps[1].bounds)
        /\ is_valid(wk[w].cfg.steps[2].bounds)
        /\ wk[w].cfg.cycles = Some(2) /\ wk[w].cycles = Some(2)
        /\ wk[w].clicks = 2

\* thread w last read a Sequence with no steps from the configuration
ReadNoSteps(w) == Alive(w) /\ wk[w].cfg.tag = "Sequence" /\ wk[w].cfg.steps = <<>>

C26_DragDirectionFree ==
    /\ [](call.op = "set_bounds_from_drag" /\ call.out # None
            /\ call.args[1] # None /\ call.args[2] # None
          => /\ bounds_inputs = bounds_from_drag(unwrap(call.args[2]), unwrap(call.args[1]),
                                                 call.args[3], call.args[4])
             /\ bounds_inputs.min_x <= bounds_inputs.max_x
             /\ bounds_inputs.min_y <= bounds_inputs.max_y
             /\ (uiPc = "idle" /\ config.tag = "Single"
                   => config.bounds = Some(bounds_inputs)))
    /\ [][call.op = "set_bounds_from_drag"
            /\ (call.args[1] = None \/ call.args[2] = None)
          => bounds_inputs' = bounds_inputs /\ config' = config]_vars

\* a drag from the lower right to the upper left, at 1.5 pixels per point
\* on a monitor left of the origin, has been stored
C26_Witness ==
    /\ call.op = "set_bounds_from_drag"
    /\ call.args = <<Some(<<400, 400>>), Some(<<101, 37>>), <<3, 2>>, <<-1920, 40>>>>
    /\ call.out # None
    /\ uiPc = "idle"
    /\ config.bounds = Some(MkBounds(-1768, -1320, 96, 640))

\* the clicks a pass has issued when it comes to step n + 1
PrefixClicks(steps, n) == SumClicks(SubSeq(steps, 1, n))

\* the clicks thread w has issued in passes that ended
EarlierPasses(w) ==
    (unwrap(wk[w].cfg.cycles) - unwrap(wk[w].cycles)) * SumClicks(wk[w].cfg.steps)

\* C27: within a pass of a Sequence the clicks are issued in the order of
\* the steps: all the clicks of step i, with its button and in its region,
\* before any click of step i + 1, and the next pass starts at the first
\* step again. The clicks issued so far are those of the passes that ended,
\* of the steps before the current one and of the current step so far.
C27_ClicksInStepOrder ==
    /\ [](\A w \in Jobs :
            InSequence(w) /\ wk[w].cfg.cycles # None
            => LET r == wk[w]
                   before == EarlierPasses(w) + PrefixClicks(r.cfg.steps, r.si - 1)
               IN  /\ r.pc = "cycles" => r.clicks = EarlierPasses(w)
                   /\ r.pc = "step" => r.si >= 1 /\ r.clicks = before
                   /\ r.pc \in {"clicks", "click", "press"} => r.clicks = before + r.ci
                   /\ r.pc \in {"sleep_check", "sleep"} => r.clicks = before + r.ci + 1
                   /\ r.pc \in {"click", "press"}
                        => /\ 1 <= r.si /\ r.si <= Len(r.cfg.steps)
                           /\ r.ci < CurStep(r).clicks
                   /\ r.pc = "press"
                        => /\ r.b = Some(CurStep(r).bounds)
                           /\ r.btn = Some(CurStep(r).button))
    /\ [][\A w \in Jobs :
            wk[w].pc = "cycles" /\ wk'[w].pc = "step" => wk'[w].si = 1]_vars

\* the second pass is at the third click of its second step, a right click
\* in the region of that step, after 6 + 3 + 2 clicks
C27_Witness ==
    \E w \in Jobs :
        /\ InSequence(w)
        /\ wk[w].pc = "press"
        /\ wk[w].cfg.cycles = Some(2) /\ wk[w].cycles = Some(1)
        /\ wk[w].si = 2 /\ wk[w].ci = 2
        /\ wk[w].clicks = 11
        /\ wk[w].btn = Some("Right") /\ wk[w].b = Some(valid_bounds)

\* the commands a seeded call has sent, and the indices of its presses,
\* releases and moves among them
Sent == IF mc.sent = None THEN <<>> ELSE unwrap(mc.sent)

SentAt(cmd) == {i \in 1 .. Len(Sent) : Sent[i].cmd = cmd}

\* human_mouse.rs:165  human_move_and_click has made its last call
Completed == call.op = "human_move_and_click" /\ mc.sent # None /\ mc.pc = "return"

\* C28: a completed human_move_and_click has sent one button-down and then
\* one button-up of the requested button, with only the hold sleep between
\* them, after all its pointer moves, and the hold sleep is of at least
\* 20 ms and less than 70 ms.
C28_OnePressOneRelease ==
    Completed =>
        LET n == Len(Sent)
        IN  /\ n >= 3
            /\ SentAt("down") = {n - 2}
            /\ SentAt("up") = {n}
            /\ Sent[n - 2].button = call.args[5]
            /\ Sent[n].button = call.args[5]
            /\ Sent[n - 1].cmd = "sleep"
            /\ 20 <= Sent[n - 1].ms /\ Sent[n - 1].ms < 70
            /\ \A i \in SentAt("move") : i < n - 2

\* a call with the right button has returned after several moves and a
\* hold of 69 ms
C28_Witness ==
    /\ Completed
    /\ call.args[5] = "Right"
    /\ Cardinality(SentAt("move")) >= 3
    /\ Sent[Len(Sent)].cmd = "up"
    /\ Sent[Len(Sent) - 1].ms = 69

\* human_mouse.rs:219  the pointer is where a mouse_move_to of the path
\* named phase has put it
SentBy(phase) ==
    /\ mc.phase = phase
    /\ \/ mc.pc = "path" /\ mc.i > 0
       \/ mc.pc \in {"plan", "settle", "down", "hold", "return"}

\* C29: with a valid region supplied to human_move_and_click, every
\* position sent by the overshoot path and by the main path is contained in
\* the region; positions outside it are sent by the entry path only.
C29_PathStaysInRegion ==
    (mc.hbounds # None /\ is_valid(unwrap(mc.hbounds)))
    => (SentBy("over") \/ SentBy("main") => contains(unwrap(mc.hbounds), pointer))

\* the overshoot path, after an entry path from outside the region, has
\* sent a position on the edge of the region that is not the end of a path
C29_Witness ==
    /\ mc.hbounds # None
    /\ is_valid(unwrap(mc.hbounds))
    /\ ~contains(unwrap(mc.hbounds), call.args[1])
    /\ SentBy("over")
    /\ mc.pc = "path"
    /\ pointer[2] = unwrap(mc.hbounds).min_y
    /\ pointer # mc.src /\ pointer # mc.dest

\* human_mouse.rs:143-144  a region is supplied and `from`, as passed to
\* human_move_and_click, is not contained in it
FromOutside ==
    /\ call.op = "human_move_and_click"
    /\ mc.hbounds # None
    /\ ~contains(unwrap(mc.hbounds), call.args[1])

\* human_mouse.rs:145  let entry = b.nearest_point(from)
EntryPoint == nearest_point(unwrap(mc.hbounds), call.args[1])

\* p is on an edge of the region b
OnEdge(b, p) ==
    /\ contains(b, p)
    /\ p[1] \in {b.min_x, b.max_x} \/ p[2] \in {b.min_y, b.max_y}

\* human_mouse.rs:146  the entry path is being replayed
InEntryPath == mc.pc = "path" /\ mc.phase = "entry" /\ mc.steps > 0

\* human_mouse.rs:154, 159  the first path replayed with the region
InFirstBoundedPath ==
    /\ mc.pc = "path"
    /\ mc.phase = "over" \/ (mc.phase = "main" /\ mc.over = mc.to)

\* C30 (as claimed): with `from` not contained in the supplied region,
\* human_move_and_click first replays a path with no clamp from `from` that
\* ends exactly at nearest_point(from) = clamp(from), a point on the edge
\* of the region, and then the main path, which starts at that point; with
\* `from` contained, or no region, no entry path is replayed. (States of a
\* call that panicked are left to C19.)
C30_EntryPathFirst ==
    (call.op = "human_move_and_click" /\ mc.pc \notin {"begin", "panic"})
    => IF FromOutside
       THEN /\ EntryPoint = clamp(unwrap(mc.hbounds), call.args[1])
            /\ OnEdge(unwrap(mc.hbounds), EntryPoint)
            /\ IF InEntryPath
               THEN /\ mc.bounds = None
                    /\ mc.src = call.args[1]
                    /\ mc.dest = EntryPoint
               ELSE /\ mc.from = EntryPoint
                    /\ mc.pc = "plan" => pointer = EntryPoint
                    /\ InFirstBoundedPath => mc.src = EntryPoint
       ELSE /\ ~InEntryPath
            /\ mc.from = call.args[1]
            /\ InFirstBoundedPath => mc.src = call.args[1]

\* human_mouse.rs:116-123  `over` is `to` pushed on, on each axis, by less
\* than overshoot_px and never against the direction from -> to
PushedOn(over, to, from, px) ==
    \A k \in {1, 2} :
        /\ Abs(over[k] - to[k]) < px
        /\ over[k] # to[k] => Sgn(over[k] - to[k]) = Sgn(to[k] - from[k])

\* C31: when maybe_overshoot returns a point other than `to`, the point is
\* `to` displaced along from -> to by less than overshoot_px on each axis,
\* and human_move_and_click replays a path to that point, sleeps a settle
\* pause of at least 20 ms and less than 40 ms, replays a path from that
\* point to `to`, then clicks; otherwise one path to `to` precedes the click.
C31_OvershootThenSettle ==
    [][(call.op = "human_move_and_click" /\ mc'.pc # "begin")
       => /\ (mc.pc = "plan" /\ mc'.pc # "plan")
             => /\ mc'.pc = "path" /\ mc'.src = mc.from
                /\ IF mc'.over # mc.to
                   THEN /\ PushedOn(mc'.over, mc.to, mc.from, mc.settings.overshoot_px)
                        /\ mc'.phase = "over" /\ mc'.dest = mc'.over
                   ELSE mc'.phase = "main" /\ mc'.dest = mc.to
          /\ (mc.pc = "path" /\ mc.phase = "over" /\ mc'.pc # "path")
             => mc'.pc = "settle"
          /\ (mc.pc = "settle" /\ mc'.pc # "settle")
             => /\ mc'.pc = "path" /\ mc'.phase = "main"
                /\ mc'.src = mc.over /\ mc'.dest = mc.to
                /\ \E ms \in 20 .. 39 : mc'.sent = Some(Sent \o <<SleepMs(ms)>>)
          /\ (mc.pc = "path" /\ mc.phase = "main" /\ mc'.pc # "path")
             => mc'.pc = "down" /\ mc.dest = mc.to
          /\ (mc'.pc = "down" /\ mc.pc # "down")
             => mc.pc = "path" /\ mc.phase = "main"]_vars

\* a call that overshot is at its click: the command record holds the path
\* to the overshoot point, the settle pause and the path back to `to`
C31_Witness ==
    /\ call.op = "human_move_and_click"
    /\ mc.pc = "hold"
    /\ mc.over # mc.to
    /\ pointer = mc.to
    /\ \E i \in SentAt("move") : Sent[i].pos = mc.over

\* human_mouse.rs:23  is_valid() returns true for b in some build
ReturnsValid(b) == \E o \in is_valid_outcomes(b) : o # Panic /\ o[2]

\* C32 (as claimed): for every region whose is_valid() is true and every
\* point p, clamp(p) is contained in the region, clamp(clamp(p)) = clamp(p),
\* clamp(p) = p exactly when the region contains p, and nearest_point(p) =
\* clamp(p).
C32_ClampIntoRegion ==
    (call.op \in {"clamp", "nearest_point"} /\ call.out # None
        /\ ReturnsValid(call.args[1]))
    => LET b == call.args[1]
           p == call.args[2]
           out == unwrap(call.out)
       IN  /\ out[1] = "ok"
           /\ contains_outcomes(b, out[2]) = {Ok(TRUE)}
           /\ clamp_outcomes(b, out[2]) = {out}
           /\ (out[2] = p) = (contains_outcomes(b, p) = {Ok(TRUE)})
           /\ nearest_point_outcomes(b, p) = clamp_outcomes(b, p)
           /\ out \in clamp_outcomes(b, p)

\* main.rs:163, 204, 206  thread w left its loop by a break, with its run
\* flag still true, and AppState still holds its handle; the UI is between
\* two handlers
EndedNaturally(w) ==
    /\ job = Some(w)
    /\ wk[w].pc = "done"
    /\ running[w]
    /\ uiPc = "idle" /\ cfgLock = None

\* C35 (as claimed): after a job has ended by reaching its click or cycle
\* limit, with no stop() or pause() since, a call of start_single, or of
\* start_sequence with steps to run, starts a new job.
C35_StartAfterNaturalEnd ==
    \A w \in Jobs :
        (EndedNaturally(w) /\ spawned < MaxJobs)
        => /\ ENABLED start_single
           /\ seq_steps # <<>> => ENABLED start_sequence

\* C36 (as claimed): the worker never busy-spins: when it comes back to the
\* head of 'outer or of 'cycles it has slept or clicked since it read the
\* run flag there, for every configuration, a Sequence with no valid step
\* and cycles = None included.
C36_NoBusySpin ==
    [][\A w \in Jobs :
         /\ (wk[w].pc = "idle" /\ wk'[w].pc = "outer") => wk'[w].acted
         /\ (AtPassEnd(w) /\ wk'[w].pc = "cycles") => wk[w].acted]_vars

\* the mode thread w runs has a finite limit of zero and a region to click
\* in: a valid Single region, or some step with a valid region and clicks
ZeroLimit(w) ==
    LET c == wk[w].cfg
    IN  /\ wk[w].pc \notin {"unborn", "outer", "lock", "clone"}
        /\ IF c.tag = "Single"
           THEN c.finite_clicks = Some(0) /\ c.bounds # None /\ is_valid(unwrap(c.bounds))
           ELSE c.cycles = Some(0) /\ SumClicks(c.steps) > 0

\* C37 (as claimed): with finite_clicks = Some(0) in Single mode, or
\* cycles = Some(0) in Sequence mode, and a valid configuration, the worker
\* never calls do_click: it issues no move and no click.
C37_ZeroLimitNoClick ==
    \A w \in Jobs :
        ZeroLimit(w)
        => /\ wk[w].pc \notin {"click", "press"}
           /\ enigoLock # Thread(w)
           /\ wk[w].clicks = 0

\* C38: the ENIGO mutex is held for the whole of human_move_and_click: the
\* threads inside do_click's call are exactly the holder of the mutex, so
\* the pointer commands of two workers that coexist never interleave; and
\* no thread holds, or waits for, one of the two mutexes while it holds the
\* other.
C38_ClickHoldsEnigo ==
    /\ \A w \in Jobs :
          /\ (wk[w].pc = "press") = (enigoLock = Thread(w))
          /\ ~(cfgLock = Thread(w) /\ enigoLock = Thread(w))
          /\ wk[w].pc = "click" => cfgLock # Thread(w)
          /\ wk[w].pc = "lock" => enigoLock # Thread(w)
    /\ Cardinality({w \in Jobs : wk[w].pc = "press"}) <= 1
    /\ enigoLock # UiThread

\* a stopped worker is still inside its click and the worker of the next
\* job waits for ENIGO
C38_Witness ==
    \E v, w \in Jobs :
        /\ v # w
        /\ wk[v].pc = "press" /\ ~running[v] /\ enigoLock = Thread(v)
        /\ wk[w].pc = "click" /\ running[w] /\ job = Some(w)

\* C33 (as claimed): in the worker loops of temp_main2.rs and
\* spawn_temp.rs the configuration mutex is never held while the worker
\* sleeps, in its delay between clicks or in its idle wait, so the UI
\* thread never waits for a sleep of a worker to lock the configuration.
C33_NoLockAcrossSleep ==
    call.op \in {"temp_main2", "spawn_temp"}
    => \A w \in Jobs : wk[w].pc = "p_sleep" => cfgLock # Thread(w)

\* C34 (as claimed): in temp_main2.rs and temp_main3.rs a start() that
\* follows a pause() of a running job, with no stop() in between, starts a
\* fresh job: a new worker with a true run flag.
C34_StartAfterPause ==
    [][(call.op \in {"temp_main2", "temp_main3"}
        /\ call.args = <<"pause">> /\ call.out = Some(TRUE)
        /\ call'.args = <<"start">>)
       => /\ spawned' = spawned + 1
          /\ job' = Some(spawned')
          /\ running'[spawned']]_vars

\* C39 (as claimed): while it draws the step list of temp_main2.rs or
\* update.rs the UI thread never calls lock() on the configuration mutex
\* it already holds, a changed checkbox of a step included.
C39_NoRelockInStepList ==
    (call.op \in {"temp_main2", "update"} /\ uiPc = "toggle") => cfgLock # UiThread

====
